---- MODULE Spec2Model ----
(***************************************************************************)
(* A model of the SleeperAPI client (src/unnamed/part_001, imported by     *)
(* src/src/index.ts as "./sleeper") and of the tool handlers registered in *)
(* src/src/index.ts.                                                       *)
(*                                                                         *)
(* Scheduling.  The client runs on a JavaScript event loop.  A handler     *)
(* runs synchronously up to an `await`.  An await on a remote call (fetch) *)
(* suspends the invocation until the host delivers the response: such a    *)
(* delivery, the arrival of a new tool invocation and the passing of wall  *)
(* clock time are macrotasks.  An await on a promise that is already       *)
(* settled (the async getCacheData, the return of an async method)         *)
(* suspends the invocation for microtask ticks only, and the event loop    *)
(* drains the microtask queue before it takes the next macrotask.  Every   *)
(* await of the source is a location of pc; locations in MicroPcs are the  *)
(* microtask ones and the macrotask actions are guarded by NoMicrotask.    *)
(*                                                                         *)
(* Strings are sequences of one-character strings, so that concatenation   *)
(* and trim are computed; an optional field of a JSON object is a field    *)
(* that the record may lack (tested with DOMAIN); a nullable reference is  *)
(* a sequence of length 0 (null) or 1.                                     *)
(***************************************************************************)
EXTENDS Integers, Sequences, FiniteSets, TLC

\* Bounds of the model.
MaxInv == 2           \* invocation slots that may run concurrently
MaxNow == 100000      \* clock horizon, in seconds since the instance started

\* private static readonly CACHE_DURATION_HOURS = 24
CACHE_DURATION_HOURS == 24

Inv == 1..MaxInv

\* The clock advances in steps of 11h59m and 12h, so that ages of 23h59m
\* (86340 s) and of exactly 24h (86400 s) are both reached.
TickSteps == {43140, 43200}

(***************************************************************************)
(* Strings                                                                 *)
(***************************************************************************)
Digits == {"0", "1", "2", "3", "4", "5", "6", "7", "8", "9"}
Whitespace == {" "}

RECURSIVE TrimStart(_)
TrimStart(s) ==
    IF s # <<>> /\ Head(s) \in Whitespace THEN TrimStart(Tail(s)) ELSE s

RECURSIVE TrimEnd(_)
TrimEnd(s) ==
    IF s # <<>> /\ s[Len(s)] \in Whitespace
    THEN TrimEnd(SubSeq(s, 1, Len(s) - 1))
    ELSE s

\* String.prototype.trim
Trim(s) == TrimEnd(TrimStart(s))

\* `obj.field || ''`: an absent (or empty) string field reads as "".
OrEmpty(obj, field) == IF field \in DOMAIN obj THEN obj[field] ELSE <<>>

\* `${player.first_name || ''} ${player.last_name || ''}`.trim()
DisplayName(player) ==
    Trim(OrEmpty(player, "first_name") \o <<" ">> \o OrEmpty(player, "last_name"))

UnknownPlayer == <<"U","n","k","n","o","w","n"," ","P","l","a","y","e","r">>
Unknown == <<"U","n","k","n","o","w","n">>

(***************************************************************************)
(* Payloads of the remote platform                                         *)
(***************************************************************************)
\* Player records as the full-directory endpoint returns them.
PlayerFull ==
    [first_name |-> <<"J">>, last_name |-> <<"A">>, position |-> <<"Q">>,
     team |-> <<"B">>, status |-> <<"a">>, fantasy_positions |-> << <<"Q">> >>]
PlayerBare == [first_name |-> <<"T">>]
PlayerNoName == [position |-> <<"K">>, team |-> <<"D">>, status |-> <<"i">>]
PlayerBlankName ==
    [first_name |-> <<" ">>, last_name |-> <<" ">>, position |-> <<"W">>]
PlayerPadded ==
    [first_name |-> <<" ", "M">>, last_name |-> <<"C", " ">>, team |-> <<"S">>,
     fantasy_positions |-> << <<"R">>, <<"W">> >>]

Id1 == <<"1">>
Id2 == <<"2">>
Id3 == <<"3">>
Id4 == <<"4">>

DirA == (Id1 :> PlayerFull) @@ (Id2 :> PlayerBare) @@ (Id3 :> PlayerNoName)
DirB == (Id1 :> PlayerPadded) @@ (Id4 :> PlayerBlankName)
EmptyDir == [id \in {} |-> PlayerBare]

\* Bodies the full-directory endpoint may answer with.
Directories == {DirA, DirB}

IdRank(id) == CHOOSE n \in 0..9 : ToString(n) = id[1]

\* Object.entries / Object.keys on an object whose keys are integer-like:
\* ascending numeric order of the keys.
RECURSIVE KeysInOrder(_)
KeysInOrder(ids) ==
    IF ids = {} THEN <<>>
    ELSE LET first == CHOOSE id \in ids : \A other \in ids : IdRank(id) <= IdRank(other)
         IN  <<first>> \o KeysInOrder(ids \ {first})

(***************************************************************************)
(* Remote endpoints and the operations of the client                       *)
(***************************************************************************)
\* Status codes the remote platform may answer with.
Statuses == {200, 404, 500}

\* response.ok
ResponseOkAlways(status) == TRUE
ResponseOk(status) == status \in 200..299

Opaque == [opaque |-> TRUE]

\* Bodies of /league/<id>/rosters: each roster lists its player ids.
RostersSmall ==
    << [roster_id |-> 1, players |-> <<Id1, <<"9">> >>, starters |-> <<Id1>>,
        reserve |-> <<>>] >>
RostersTwo ==
    << [roster_id |-> 1, players |-> <<Id2, Id3>>, starters |-> <<Id3>>],
       [roster_id |-> 2, players |-> <<Id4>>, reserve |-> <<Id4>>] >>

\* Bodies of /players/<sport>/trending/<type>.
TrendingSome == << [player_id |-> Id2, count |-> 7], [player_id |-> <<"9">>, count |-> 3] >>
TrendingOther == << [player_id |-> Id1, count |-> 5], [count |-> 2], [player_id |-> Id3, count |-> 1] >>

\* Bodies of /state/nfl.
NflStates ==
    { [season |-> 2024, season_type |-> "regular", week |-> 1, display_week |-> 1, leg |-> 1],
      [season |-> 2025, season_type |-> "post", week |-> 18, display_week |-> 18, leg |-> 18] }

Bodies(ep) ==
    CASE ep = "rosters" -> {RostersSmall, RostersTwo}
      [] ep = "trending" -> {TrendingSome, TrendingOther}
      [] ep = "players" -> Directories
      [] ep = "state" -> NflStates
      [] OTHER -> {Opaque}

Endpoints ==
    {"user", "user_leagues", "league", "rosters", "league_users", "matchups",
     "user_drafts", "picks", "draft", "players", "trending", "winners_bracket",
     "losers_bracket", "state", "graphql", "player_stats", "player_projections",
     "ranks", "weekly_projections"}

\* The steps of an operation, in the order of its awaits.
Fetch(eps) == [k |-> "fetch", eps |-> eps]
Ensure == [k |-> "ensure", eps |-> {}]
State == [k |-> "state", eps |-> {}]
Resolve == [k |-> "resolve", eps |-> {}]
Search == [k |-> "search", eps |-> {}]

getUser == <<Fetch({"user"})>>
getUserLeagues == <<Fetch({"user_leagues"})>>
getLeague == <<Fetch({"league"})>>
getLeagueRosters(enrichPlayers) ==
    <<Fetch({"rosters"})>> \o (IF enrichPlayers THEN <<Ensure>> ELSE <<>>)
getLeagueUsers == <<Fetch({"league_users"})>>
\* A variant that loads the directory before it fetches the matchups.
getMatchupsLoadingFirst(formatted) ==
    (IF formatted THEN <<Ensure>> ELSE <<>>) \o <<Fetch({"matchups"})>>
        \o (IF formatted THEN <<Fetch({"league_users", "rosters"})>> ELSE <<>>)
\* Promise.all([getLeagueUsers, getLeagueRosters(leagueId, false)]) after the load
getMatchups(formatted) ==
    <<Fetch({"matchups"})>>
        \o (IF formatted THEN <<Ensure, Fetch({"league_users", "rosters"})>> ELSE <<>>)
getUserDrafts == <<Fetch({"user_drafts"})>>
getDraftPicks(formatted) ==
    <<Fetch({"picks"})>>
        \o (IF formatted THEN <<Fetch({"draft"}), Fetch({"league_users", "rosters"})>> ELSE <<>>)
getTrendingPlayers(enrichPlayers) ==
    <<Fetch({"trending"})>> \o (IF enrichPlayers THEN <<Ensure>> ELSE <<>>)
getWinnersBracket == <<Fetch({"winners_bracket"})>>
getLosersBracket == <<Fetch({"losers_bracket"})>>
getPlayoffResults ==
    <<Fetch({"winners_bracket", "losers_bracket", "league_users"}), Fetch({"rosters"})>>
getNflState == <<State>>
graphqlRequest == <<Fetch({"graphql"})>>
getPlayerStats == <<State, Fetch({"player_stats"})>>
getPlayerProjections == <<State, Fetch({"player_projections"})>>
getPlayerNews == graphqlRequest
getPlayerRanks(formatted) ==
    <<State, Fetch({"ranks"})>> \o (IF formatted THEN <<Ensure>> ELSE <<>>)
getLeagueStandings == graphqlRequest
getAllWeeklyProjections == <<State, Fetch({"weekly_projections"})>>
getPlayerIdByName == <<Ensure, Search>>
\* resolvePlayerInput runs getPlayerIdByName unless the input is an id
resolvePlayerInput == <<Resolve>> \o getPlayerIdByName
getPlayerStatsByName == resolvePlayerInput \o getPlayerStats
getPlayerProjectionsByName == resolvePlayerInput \o getPlayerProjections
getPlayerNewsByName == resolvePlayerInput \o getPlayerNews
searchPlayers == <<Ensure, Search>>

\* Operations that take a flag (enrichPlayers or formatted).
FlagOps == {"getLeagueRosters", "getMatchups", "getDraftPicks", "getTrendingPlayers",
            "getPlayerRanks"}
\* Operations that take a player name or id, or a search query.
ByNameOps == {"getPlayerStatsByName", "getPlayerProjectionsByName", "getPlayerNewsByName"}
InputOps == ByNameOps \cup {"find_player_id", "searchPlayers"}
PlainOps == {"getUser", "getUserLeagues", "getLeague", "getLeagueUsers", "getUserDrafts",
             "getWinnersBracket", "getLosersBracket", "getPlayoffResults", "getNflState",
             "graphqlRequest", "getPlayerStats", "getPlayerProjections", "getPlayerNews",
             "getLeagueStandings", "getAllWeeklyProjections"}

\* What a caller may pass as a player name, id or query.
PlayerInputs == { <<"1">>, <<"9">>, <<"4", "8">>, <<"J">>, <<"1", "J">>, <<>> }

NoCall == [name |-> "none", flag |-> FALSE, input |-> <<>>]
Calls ==
    [name : PlainOps, flag : {FALSE}, input : {<<>>}]
        \cup [name : FlagOps, flag : BOOLEAN, input : {<<>>}]
        \cup [name : InputOps, flag : {FALSE}, input : PlayerInputs]

Script(c) ==
    CASE c.name = "getUser" -> getUser
      [] c.name = "getUserLeagues" -> getUserLeagues
      [] c.name = "getLeague" -> getLeague
      [] c.name = "getLeagueRosters" -> getLeagueRosters(c.flag)
      [] c.name = "getLeagueUsers" -> getLeagueUsers
      [] c.name = "getMatchups" -> getMatchups(c.flag)
      [] c.name = "getUserDrafts" -> getUserDrafts
      [] c.name = "getDraftPicks" -> getDraftPicks(c.flag)
      [] c.name = "getTrendingPlayers" -> getTrendingPlayers(c.flag)
      [] c.name = "getWinnersBracket" -> getWinnersBracket
      [] c.name = "getLosersBracket" -> getLosersBracket
      [] c.name = "getPlayoffResults" -> getPlayoffResults
      [] c.name = "getNflState" -> getNflState
      [] c.name = "graphqlRequest" -> graphqlRequest
      [] c.name = "getPlayerStats" -> getPlayerStats
      [] c.name = "getPlayerProjections" -> getPlayerProjections
      [] c.name = "getPlayerNews" -> getPlayerNews
      [] c.name = "getPlayerRanks" -> getPlayerRanks(c.flag)
      [] c.name = "getLeagueStandings" -> getLeagueStandings
      [] c.name = "getAllWeeklyProjections" -> getAllWeeklyProjections
      [] c.name = "getPlayerStatsByName" -> getPlayerStatsByName
      [] c.name = "getPlayerProjectionsByName" -> getPlayerProjectionsByName
      [] c.name = "getPlayerNewsByName" -> getPlayerNewsByName
      [] c.name = "searchPlayers" -> searchPlayers
      [] c.name = "find_player_id" -> getPlayerIdByName
      [] OTHER -> <<>>

(***************************************************************************)
(* State                                                                   *)
(***************************************************************************)
VARIABLES
    players,            \* this.players: player id -> record
    playersLoaded,      \* this.playersLoaded
    playersCache,       \* this.playersCache: null or {timestamp, players}
    playerSearchItems,  \* this.playerSearchItems
    playerFuse,         \* this.playerFuse: null or the collection the index was built on
    nflState,           \* this.nflState: null or the memoized snapshot
    now,                \* Date.now() / 1000
    call,               \* per invocation: the operation and its arguments
    stage,              \* per invocation: the step of the operation it is at
    pc,                 \* per invocation: where it is suspended
    cacheData,          \* per invocation: the local cacheData of loadPlayersCache
    inflight,           \* per invocation: endpoints with a request awaiting its response
    sent,               \* per invocation: requests issued so far, per endpoint
    recv,               \* per invocation: <<endpoint, status>> of the responses received
    got,                \* per invocation: decoded bodies, per endpoint
    resolved,           \* per invocation: the player id resolvePlayerInput settled on
    lookup,             \* per invocation: null or the list the fuzzy search returned
    result,             \* per invocation: what the operation returned or threw
    lastPlayersData,    \* body of the directory response that was decoded last
    fmtCall,            \* the private formatter applied directly, with its arguments
    fmtOut,             \* what its successive applications returned or threw
    tools               \* the names of the tools registered on the server

cacheVars == <<players, playersLoaded, playersCache, playerSearchItems, playerFuse>>
netVars == <<inflight, sent, recv, got>>
invVars == <<call, stage, pc, cacheData, resolved, lookup, result>>
fmtVars == <<fmtCall, fmtOut>>
vars == <<cacheVars, nflState, now, netVars, invVars, lastPlayersData, fmtVars, tools>>

MicroPcs == {"run", "awaitCacheData", "loadReturn"}
NoMicrotask == \A j \in Inv : pc[j] \notin MicroPcs

NoResult == [status |-> "none", error |-> <<>>, value |-> <<>>]
Returned(v) == [status |-> "returned", error |-> <<>>, value |-> <<v>>]
Thrown(e) == [status |-> "failed", error |-> <<e>>, value |-> <<>>]

NoneSent == [ep \in Endpoints |-> 0]
NoBodies == [ep \in {} |-> Opaque]
NoFormat == [name |-> "none"]

\* SleeperMCP.init: the tools it registers, in the order of its
\* this.server.tool(...) calls, each with the operation its handler calls.
ToolList ==
    << <<"get_user", "getUser">>, <<"get_user_leagues", "getUserLeagues">>,
       <<"get_league", "getLeague">>, <<"get_league_rosters", "getLeagueRosters">>,
       <<"get_league_users", "getLeagueUsers">>, <<"get_matchups", "getMatchups">>,
       <<"get_user_drafts", "getUserDrafts">>, <<"get_draft_picks", "getDraftPicks">>,
       <<"get_trending_players", "getTrendingPlayers">>,
       <<"get_playoff_results", "getPlayoffResults">>, <<"get_nfl_state", "getNflState">>,
       <<"get_player_stats", "getPlayerStatsByName">>,
       <<"get_player_projections", "getPlayerProjectionsByName">>,
       <<"get_player_news", "getPlayerNewsByName">>,
       <<"get_player_ranks", "getPlayerRanks">>,
       <<"get_regular_season_standings", "getLeagueStandings">>,
       <<"get_weekly_projections", "getAllWeeklyProjections">>,
       <<"search_players", "searchPlayers">>, <<"find_player_id", "find_player_id">> >>

\* The names registered once init has run.
init == {ToolList[k][1] : k \in 1..Len(ToolList)}

\* The operation behind a registered tool.
ToolOperation(name) == ToolList[CHOOSE k \in 1..Len(ToolList) : ToolList[k][1] = name][2]

\* The tools the README lists under "Available Tools".
Catalog ==
    {"get_user", "get_user_leagues", "get_league", "get_league_users",
     "get_league_rosters", "get_matchups", "get_regular_season_standings",
     "get_playoff_results", "get_winners_bracket", "get_losers_bracket",
     "get_user_drafts", "get_draft_picks", "search_players", "find_player_id",
     "get_player_stats", "get_player_projections", "get_player_news", "get_player_ranks",
     "get_trending_players", "get_weekly_projections", "get_enriched_players",
     "get_nfl_state"}

\* new SleeperAPI(), and no formatter applied directly
Constructed ==
    /\ players = EmptyDir
    /\ playersLoaded = FALSE
    /\ playersCache = <<>>
    /\ playerSearchItems = <<>>
    /\ playerFuse = <<>>
    /\ nflState = <<>>
    /\ now = 0
    /\ call = [i \in Inv |-> NoCall]
    /\ stage = [i \in Inv |-> 1]
    /\ pc = [i \in Inv |-> "idle"]
    /\ cacheData = [i \in Inv |-> <<>>]
    /\ inflight = [i \in Inv |-> {}]
    /\ sent = [i \in Inv |-> NoneSent]
    /\ recv = [i \in Inv |-> {}]
    /\ got = [i \in Inv |-> NoBodies]
    /\ resolved = [i \in Inv |-> <<>>]
    /\ lookup = [i \in Inv |-> <<>>]
    /\ result = [i \in Inv |-> NoResult]
    /\ lastPlayersData = <<>>
    /\ fmtCall = NoFormat
    /\ fmtOut = <<>>

\* The server with its client, after init has run.
Init == Constructed /\ tools = init

\* The server with its client, before init has run.
InitServer == Constructed /\ tools = {}

\* async init(): every this.server.tool(...) call of it
ServerInit ==
    /\ tools = {}
    /\ tools' = init
    /\ UNCHANGED <<cacheVars, nflState, now, netVars, invVars, lastPlayersData, fmtVars>>

CurStage(i) == Script(call[i])[stage[i]]
AtStage(i, kind) ==
    /\ pc[i] = "run"
    /\ stage[i] <= Len(Script(call[i]))
    /\ CurStage(i).k = kind

\* The invocation goes on with the step n places ahead, as a microtask.
Advance(i, n) ==
    /\ stage' = [stage EXCEPT ![i] = @ + n]
    /\ pc' = [pc EXCEPT ![i] = "run"]

\* The invocation ends by throwing e; responses still on their way are dropped.
Throw(i, e) ==
    /\ result' = [result EXCEPT ![i] = Thrown(e)]
    /\ pc' = [pc EXCEPT ![i] = "done"]
    /\ inflight' = [inflight EXCEPT ![i] = {}]
    /\ UNCHANGED stage

Issue(i, eps) ==
    /\ inflight' = [inflight EXCEPT ![i] = eps]
    /\ sent' = [sent EXCEPT ![i] = [ep \in Endpoints |-> IF ep \in eps THEN @[ep] + 1 ELSE @[ep]]]

(***************************************************************************)
(* Remote client                                                           *)
(***************************************************************************)
\* new Error(`HTTP error! status: ${response.status}`), with the prefix of the wrapper
HttpErrorWithoutStatus(ep, status) ==
    [kind |-> "http", prefix |-> "HTTP error!", status |-> 0]
HttpError(ep, status) ==
    [kind |-> "http",
     prefix |-> CASE ep = "draft" -> "HTTP error getting draft info! status: "
                  [] ep = "graphql" -> "GraphQL HTTP error! status: "
                  [] OTHER -> "HTTP error! status: ",
     status |-> status]

\* A tool invocation arrives and its handler calls the operation.
Start(i, c) ==
    /\ NoMicrotask
    /\ pc[i] \in {"idle", "done"}
    /\ call' = [call EXCEPT ![i] = c]
    /\ stage' = [stage EXCEPT ![i] = 1]
    /\ pc' = [pc EXCEPT ![i] = "run"]
    /\ cacheData' = [cacheData EXCEPT ![i] = <<>>]
    /\ inflight' = [inflight EXCEPT ![i] = {}]
    /\ sent' = [sent EXCEPT ![i] = NoneSent]
    /\ recv' = [recv EXCEPT ![i] = {}]
    /\ got' = [got EXCEPT ![i] = NoBodies]
    /\ resolved' = [resolved EXCEPT ![i] = <<>>]
    /\ lookup' = [lookup EXCEPT ![i] = <<>>]
    /\ result' = [result EXCEPT ![i] = NoResult]
    /\ UNCHANGED <<cacheVars, nflState, now, lastPlayersData>>
    /\ UNCHANGED <<fmtVars, tools>>

\* const response = await fetch(url), for every request of the step at once
IssueFetch(i) ==
    /\ AtStage(i, "fetch")
    /\ Issue(i, CurStage(i).eps)
    /\ pc' = [pc EXCEPT ![i] = "awaitFetch"]
    /\ UNCHANGED <<cacheVars, nflState, now, recv, got, call, stage, cacheData,
                   resolved, lookup, result, lastPlayersData>>
    /\ UNCHANGED <<fmtVars, tools>>

\* if (!response.ok) throw ...; return response.json()
FetchResponse(i, ep, status, body) ==
    /\ NoMicrotask
    /\ pc[i] = "awaitFetch"
    /\ ep \in inflight[i]
    /\ recv' = [recv EXCEPT ![i] = @ \cup {<<ep, status>>}]
    /\ IF ResponseOk(status)
       THEN /\ got' = [got EXCEPT ![i] = (ep :> body) @@ @]
            /\ inflight' = [inflight EXCEPT ![i] = @ \ {ep}]
            /\ IF inflight[i] = {ep}
               THEN Advance(i, 1)
               ELSE UNCHANGED <<stage, pc>>
            /\ UNCHANGED result
       ELSE /\ Throw(i, HttpError(ep, status))
            /\ UNCHANGED got
    /\ UNCHANGED <<cacheVars, nflState, now, sent, call, cacheData, resolved, lookup,
                   lastPlayersData>>
    /\ UNCHANGED <<fmtVars, tools>>

\* if (!this.nflState)
NflStateMissingAlways(state) == TRUE
NflStateMissing(state) == state = <<>>

\* getNflState: if (!this.nflState) { fetch ... }
GetNflState(i) ==
    /\ AtStage(i, "state")
    /\ IF NflStateMissing(nflState)
       THEN /\ Issue(i, {"state"})
            /\ pc' = [pc EXCEPT ![i] = "awaitState"]
            /\ UNCHANGED stage
       ELSE /\ Advance(i, 1)
            /\ UNCHANGED <<inflight, sent>>
    /\ UNCHANGED <<cacheVars, nflState, now, recv, got, call, cacheData, resolved,
                   lookup, result, lastPlayersData>>
    /\ UNCHANGED <<fmtVars, tools>>

\* getNflState: this.nflState = await response.json()
NflStateResponse(i, status, body) ==
    /\ NoMicrotask
    /\ pc[i] = "awaitState"
    /\ recv' = [recv EXCEPT ![i] = @ \cup {<<"state", status>>}]
    /\ IF ResponseOk(status)
       THEN /\ nflState' = <<body>>
            /\ got' = [got EXCEPT ![i] = ("state" :> body) @@ @]
            /\ inflight' = [inflight EXCEPT ![i] = {}]
            /\ Advance(i, 1)
            /\ UNCHANGED result
       ELSE /\ Throw(i, HttpError("state", status))
            /\ UNCHANGED <<nflState, got>>
    /\ UNCHANGED <<cacheVars, now, sent, call, cacheData, resolved, lookup,
                   lastPlayersData>>
    /\ UNCHANGED <<fmtVars, tools>>

(***************************************************************************)
(* Player directory cache and search index                                 *)
(***************************************************************************)
\* if (!this.playersLoaded)
PlayersNotLoadedIgnoringFlag(loaded) == TRUE
PlayersNotLoaded(loaded) == ~loaded

\* const cacheAge = Date.now() / 1000 - cacheData.timestamp;
\* return cacheAge < CACHE_DURATION_HOURS * 3600
isCacheValid(cd, t) == t - cd.timestamp < CACHE_DURATION_HOURS * 3600

\* if (name) { this.playerSearchItems.push(...) }
IndexedAlways(player) == TRUE
Indexed(player) == DisplayName(player) # <<>>

SearchItem(id, player) ==
    [id |-> id, name |-> DisplayName(player),
     position |-> OrEmpty(player, "position"), team |-> OrEmpty(player, "team")]

RECURSIVE ItemsOf(_, _)
ItemsOf(keys, dir) ==
    IF keys = <<>> THEN <<>>
    ELSE (IF Indexed(dir[Head(keys)])
          THEN <<SearchItem(Head(keys), dir[Head(keys)])>>
          ELSE <<>>) \o ItemsOf(Tail(keys), dir)

\* The items buildPlayerSearchIndex pushes for a directory, in Object.entries order;
\* the Fuse index is constructed on that array.
buildPlayerSearchIndex(dir) == ItemsOf(KeysInOrder(DOMAIN dir), dir)

\* What refreshPlayersCache stores once getPlayers has returned playersData.
refreshWithoutSnapshot(playersData, t) ==
    [players |-> playersData,
     playersCache |-> <<>>,
     items |-> buildPlayerSearchIndex(playersData)]
refreshKeepingSnapshot(playersData, t) ==
    [players |-> playersData,
     playersCache |-> IF playersCache # <<>> THEN playersCache
                      ELSE <<[timestamp |-> t, players |-> playersData]>>,
     items |-> buildPlayerSearchIndex(playersData)]
refreshPlayersCache(playersData, t) ==
    [players |-> playersData,
     playersCache |-> <<[timestamp |-> t, players |-> playersData]>>,
     items |-> buildPlayerSearchIndex(playersData)]

\* ensurePlayersLoaded up to its await; loadPlayersCache up to
\* `await this.getCacheData()`, whose body has already read this.playersCache.
EnsurePlayersLoaded(i) ==
    /\ AtStage(i, "ensure")
    /\ IF PlayersNotLoaded(playersLoaded)
       THEN /\ cacheData' = [cacheData EXCEPT ![i] = playersCache]
            /\ pc' = [pc EXCEPT ![i] = "awaitCacheData"]
            /\ UNCHANGED stage
       ELSE /\ Advance(i, 1)
            /\ UNCHANGED cacheData
    /\ UNCHANGED <<cacheVars, nflState, now, netVars, call, resolved, lookup, result,
                   lastPlayersData>>
    /\ UNCHANGED <<fmtVars, tools>>

\* loadPlayersCache after getCacheData: the snapshot if it is fresh, else
\* refreshPlayersCache, which calls getPlayers and awaits the fetch.
LoadPlayersCache(i) ==
    /\ pc[i] = "awaitCacheData"
    /\ IF cacheData[i] # <<>> /\ isCacheValid(cacheData[i][1], now)
       THEN /\ players' = cacheData[i][1].players
            /\ playerSearchItems' = buildPlayerSearchIndex(cacheData[i][1].players)
            /\ playerFuse' = <<buildPlayerSearchIndex(cacheData[i][1].players)>>
            /\ pc' = [pc EXCEPT ![i] = "loadReturn"]
            /\ UNCHANGED <<inflight, sent>>
       ELSE /\ Issue(i, {"players"})
            /\ pc' = [pc EXCEPT ![i] = "awaitPlayers"]
            /\ UNCHANGED <<players, playerSearchItems, playerFuse>>
    /\ UNCHANGED <<playersLoaded, playersCache, nflState, now, recv, got, call, stage,
                   cacheData, resolved, lookup, result, lastPlayersData>>
    /\ UNCHANGED <<fmtVars, tools>>

\* getPlayers returns (or throws) and refreshPlayersCache stores the directory.
PlayersResponse(i, status, body) ==
    /\ NoMicrotask
    /\ pc[i] = "awaitPlayers"
    /\ recv' = [recv EXCEPT ![i] = @ \cup {<<"players", status>>}]
    /\ IF ResponseOk(status)
       THEN /\ LET new == refreshPlayersCache(body, now)
               IN  /\ players' = new.players
                   /\ playersCache' = new.playersCache
                   /\ playerSearchItems' = new.items
                   /\ playerFuse' = <<new.items>>
            /\ lastPlayersData' = <<body>>
            /\ got' = [got EXCEPT ![i] = ("players" :> body) @@ @]
            /\ inflight' = [inflight EXCEPT ![i] = {}]
            /\ pc' = [pc EXCEPT ![i] = "loadReturn"]
            /\ UNCHANGED <<stage, result>>
       ELSE /\ Throw(i, HttpError("players", status))
            /\ UNCHANGED <<players, playersCache, playerSearchItems, playerFuse, got,
                           lastPlayersData>>
    /\ UNCHANGED <<playersLoaded, nflState, now, sent, call, cacheData, resolved, lookup>>
    /\ UNCHANGED <<fmtVars, tools>>

\* ensurePlayersLoaded after `await this.loadPlayersCache()`
PlayersLoaded(i) ==
    /\ pc[i] = "loadReturn"
    /\ playersLoaded' = TRUE
    /\ Advance(i, 1)
    /\ UNCHANGED <<players, playersCache, playerSearchItems, playerFuse, nflState, now,
                   netVars, call, cacheData, resolved, lookup, result, lastPlayersData>>
    /\ UNCHANGED <<fmtVars, tools>>

\* Wall clock time passes.
Tick(d) ==
    /\ NoMicrotask
    /\ now + d <= MaxNow
    /\ now' = now + d
    /\ UNCHANGED <<cacheVars, nflState, netVars, invVars, lastPlayersData>>
    /\ UNCHANGED <<fmtVars, tools>>

(***************************************************************************)
(* Fuzzy resolver                                                          *)
(***************************************************************************)
\* searchPlayers(query, limit = 10)
DefaultSearchLimit == 10

\* /^\d+$/.test(playerInput)
IsPlayerIdNever(playerInput) == FALSE
IsPlayerId(playerInput) ==
    /\ Len(playerInput) >= 1
    /\ \A k \in 1..Len(playerInput) : playerInput[k] \in Digits

\* Fuse.search(query, {limit}) is library code: it returns at most `limit` distinct
\* items of the collection the index was built on, best match first.  Which
\* items match a query is left open.
FuseSearch(docs, limit) ==
    LET range == {docs[k] : k \in 1..Len(docs)}
        most == IF limit < Len(docs) THEN limit ELSE Len(docs)
    IN  {s \in UNION {[1..n -> range] : n \in 0..most} :
            \A a, b \in 1..Len(s) : s[a] = s[b] => a = b}

PlayerNotFound(playerInput) ==
    [kind |-> "player_not_found", prefix |-> "Player not found: ", input |-> playerInput]

\* resolvePlayerInput after getPlayerIdByName: if (result) return result.playerId;
\* throw new Error(`Player not found: ${playerInput}`)
resolveFallingBackToInput(playerInput, found) ==
    IF found # <<>>
    THEN [throws |-> FALSE, id |-> <<found[1].id>>]
    ELSE [throws |-> FALSE, id |-> <<playerInput>>]
resolveOutcome(playerInput, found) ==
    IF found # <<>>
    THEN [throws |-> FALSE, id |-> <<found[1].id>>]
    ELSE [throws |-> TRUE, id |-> <<>>]

\* resolvePlayerInput up to its await
ResolvePlayerInput(i) ==
    /\ AtStage(i, "resolve")
    /\ IF IsPlayerId(call[i].input)
       THEN /\ resolved' = [resolved EXCEPT ![i] = <<call[i].input>>]
            /\ Advance(i, 1 + Len(getPlayerIdByName))
       ELSE /\ Advance(i, 1)
            /\ UNCHANGED resolved
    /\ UNCHANGED <<cacheVars, nflState, now, netVars, call, cacheData, lookup, result,
                   lastPlayersData>>
    /\ UNCHANGED <<fmtVars, tools>>

\* getPlayerIdByName and searchPlayers after `await this.ensurePlayersLoaded()`:
\* if (!this.playerFuse) this.buildPlayerSearchIndex(); this.playerFuse.search(...)
FuzzySearch(i) ==
    /\ AtStage(i, "search")
    /\ LET docs == IF playerFuse = <<>> THEN buildPlayerSearchIndex(players)
                   ELSE playerFuse[1]
           limit == IF call[i].name = "searchPlayers" THEN DefaultSearchLimit ELSE 1
       IN  \E found \in FuseSearch(docs, limit) :
             LET out == resolveOutcome(call[i].input, found)
             IN  /\ playerFuse' = <<docs>>
                 /\ playerSearchItems' =
                        IF playerFuse = <<>> THEN docs ELSE playerSearchItems
                 /\ lookup' = [lookup EXCEPT ![i] = <<found>>]
                 /\ IF call[i].name \in ByNameOps /\ out.throws
                    THEN /\ Throw(i, PlayerNotFound(call[i].input))
                         /\ UNCHANGED resolved
                    ELSE /\ Advance(i, 1)
                         /\ resolved' = [resolved EXCEPT ![i] =
                                IF call[i].name \in ByNameOps THEN out.id ELSE @]
                         /\ UNCHANGED <<inflight, result>>
    /\ UNCHANGED <<players, playersLoaded, playersCache, nflState, now, sent, recv, got,
                   call, cacheData, lastPlayersData>>
    /\ UNCHANGED <<fmtVars, tools>>

(***************************************************************************)
(* Enrichment and results                                                  *)
(***************************************************************************)
\* status: player.status || ''
StatusOrUnknown(player) ==
    IF OrEmpty(player, "status") # <<>> THEN player.status ELSE Unknown
StatusOf(player) == OrEmpty(player, "status")

\* fantasy_positions: player.fantasy_positions || []
FantasyPositions(player) ==
    IF "fantasy_positions" \in DOMAIN player THEN player.fantasy_positions ELSE <<>>

PlayerInfo(player) ==
    [name |-> DisplayName(player),
     position |-> OrEmpty(player, "position"),
     team |-> OrEmpty(player, "team"),
     status |-> StatusOf(player),
     fantasy_positions |-> FantasyPositions(player)]

UnknownInfo ==
    [name |-> UnknownPlayer, position |-> <<>>, team |-> <<>>, status |-> Unknown,
     fantasy_positions |-> <<>>]

\* A variant that keeps only the ids the directory knows.
enrichKnownOnly(playerIds, dir) ==
    LET known == SelectSeq(playerIds, LAMBDA id : id \in DOMAIN dir)
    IN  [k \in 1..Len(known) |-> ("player_id" :> known[k]) @@ PlayerInfo(dir[known[k]])]

enrichPlayerIds(playerIds, dir) ==
    [k \in 1..Len(playerIds) |->
        ("player_id" :> playerIds[k])
            @@ (IF playerIds[k] \in DOMAIN dir THEN PlayerInfo(dir[playerIds[k]])
                ELSE UnknownInfo)]

\* getLeagueRosters: the *_enriched lists added to one roster
EnrichedRoster(roster, dir) ==
    LET Add(field, enriched) ==
            IF field \in DOMAIN roster /\ Len(roster[field]) > 0
            THEN enriched :> enrichPlayerIds(roster[field], dir)
            ELSE [x \in {} |-> <<>>]
    IN  Add("players", "players_enriched") @@ Add("starters", "starters_enriched")
            @@ Add("reserve", "reserve_enriched") @@ roster

\* getTrendingPlayers: the player_info added to one trending item
TrendingItem(item, dir) ==
    ("player_info" :>
        (IF /\ "player_id" \in DOMAIN item
            /\ item.player_id # <<>>
            /\ item.player_id \in DOMAIN dir
         THEN LET player == dir[item.player_id]
              IN  [name |-> DisplayName(player),
                   position |-> OrEmpty(player, "position"),
                   team |-> OrEmpty(player, "team"),
                   status |-> OrEmpty(player, "status"),
                   fantasy_positions |->
                       IF "fantasy_positions" \in DOMAIN player
                       THEN player.fantasy_positions ELSE <<>>]
         ELSE [name |-> UnknownPlayer, position |-> <<>>, team |-> <<>>,
               status |-> Unknown, fantasy_positions |-> <<>>])) @@ item

Json(data) == [kind |-> "json", data |-> data]
Text(data) == [kind |-> "text", data |-> data]

\* The value the operation (for find_player_id: its tool handler) returns.
ReturnValue(i) ==
    LET c == call[i]
        body == got[i]
    IN  CASE c.name = "getLeagueRosters" ->
                Json(IF c.flag
                     THEN [k \in 1..Len(body["rosters"]) |->
                              EnrichedRoster(body["rosters"][k], players)]
                     ELSE body["rosters"])
          [] c.name = "getTrendingPlayers" ->
                Json(IF c.flag
                     THEN [k \in 1..Len(body["trending"]) |->
                              TrendingItem(body["trending"][k], players)]
                     ELSE body["trending"])
          [] c.name = "getMatchups" ->
                IF c.flag THEN Text("matchups table") ELSE Json(body["matchups"])
          [] c.name = "getDraftPicks" ->
                IF c.flag THEN Text("draft picks table") ELSE Json(body["picks"])
          [] c.name = "getPlayerRanks" ->
                IF c.flag THEN Text("player ranks table") ELSE Json(body["ranks"])
          [] c.name = "getPlayoffResults" -> Text("playoff results")
          [] c.name = "getNflState" -> Json(nflState[1])
          [] c.name = "searchPlayers" -> Json(lookup[i][1])
          [] c.name = "find_player_id" ->
                IF lookup[i][1] # <<>>
                THEN Json([player_id |-> lookup[i][1][1].id,
                           matched_name |-> lookup[i][1][1].name])
                ELSE Text(<<"Player not found: ", c.input>>)
          [] c.name \in {"getPlayerStats", "getPlayerStatsByName"} ->
                Json(body["player_stats"])
          [] c.name \in {"getPlayerProjections", "getPlayerProjectionsByName"} ->
                Json(body["player_projections"])
          [] c.name \in {"graphqlRequest", "getPlayerNews", "getPlayerNewsByName",
                         "getLeagueStandings"} -> Json(body["graphql"])
          [] c.name = "getAllWeeklyProjections" -> Json(body["weekly_projections"])
          [] OTHER -> Json(body[CHOOSE ep \in Script(c)[1].eps : TRUE])

\* The operation returns.
Return(i) ==
    /\ pc[i] = "run"
    /\ stage[i] = Len(Script(call[i])) + 1
    /\ result' = [result EXCEPT ![i] = Returned(ReturnValue(i))]
    /\ pc' = [pc EXCEPT ![i] = "done"]
    /\ UNCHANGED <<cacheVars, nflState, now, netVars, call, stage, cacheData, resolved,
                   lookup, lastPlayersData>>
    /\ UNCHANGED <<fmtVars, tools>>

(***************************************************************************)
(* Text.  A text is a sequence whose elements are characters or the        *)
(* literal pieces of a template; a pictograph of the source is written by  *)
(* its name in parentheses.  A list of lines is a sequence of texts.       *)
(* Numbers of the payloads are non-negative integers.                      *)
(***************************************************************************)
\* Number.prototype.toString
RECURSIVE NumberToString(_)
NumberToString(n) ==
    IF n < 10 THEN <<ToString(n)>>
    ELSE NumberToString(n \div 10) \o <<ToString(n % 10)>>

\* Number.prototype.toFixed(digits) on an integer
ToFixed(n, digits) == NumberToString(n) \o <<".">> \o [k \in 1..digits |-> "0"]

\* The column separator ` | ` of the table rows.
Bar == <<" ", "|", " ">>

\* String.prototype.repeat
Repeat(piece, n) == [k \in 1..n |-> piece]

\* String.prototype.padEnd / padStart with spaces
PadEnd(s, n) == IF Len(s) >= n THEN s ELSE s \o Repeat(" ", n - Len(s))
PadStart(s, n) == IF Len(s) >= n THEN s ELSE Repeat(" ", n - Len(s)) \o s

\* Array.prototype.join
RECURSIVE Join(_, _)
Join(lines, sep) ==
    IF lines = <<>> THEN <<>>
    ELSE IF Len(lines) = 1 THEN lines[1]
    ELSE LET half == Len(lines) \div 2
         IN  Join(SubSeq(lines, 1, half), sep) \o <<sep>>
                 \o Join(SubSeq(lines, half + 1, Len(lines)), sep)

\* The order of two strings of digits by their UTF-16 code units.
RECURSIVE StringLess(_, _)
StringLess(a, b) ==
    IF b = <<>> THEN FALSE
    ELSE IF a = <<>> THEN TRUE
    ELSE IF a[1] = b[1] THEN StringLess(Tail(a), Tail(b))
    ELSE IdRank(<<a[1]>>) < IdRank(<<b[1]>>)

\* Array.prototype.sort() without a comparator, on distinct numbers: the
\* elements are compared as strings.
RECURSIVE DefaultSort(_)
DefaultSort(numbers) ==
    IF numbers = {} THEN <<>>
    ELSE LET first == CHOOSE n \in numbers :
                         \A other \in numbers \ {n} :
                             StringLess(NumberToString(n), NumberToString(other))
         IN  <<first>> \o DefaultSort(numbers \ {first})

\* Array.prototype.sort((a, b) => Key(a) - Key(b)): stable, ascending keys.
\* keys[i] is the key of seq[i].
SortByKey(seq, keys) ==
    LET n == Len(seq)
        pos == [i \in 1..n |->
                  Cardinality({j \in 1..n : keys[j] < keys[i] \/ (keys[j] = keys[i] /\ j < i)}) + 1]
    IN  [k \in 1..n |-> seq[CHOOSE i \in 1..n : pos[i] = k]]

\* obj.field of an optional field: null (<<>>) or the value.
Opt(obj, field) == IF field \in DOMAIN obj THEN <<obj[field]>> ELSE <<>>

\* A TypeError of the runtime (a property read on undefined).
TypeError == [kind |-> "TypeError"]

(***************************************************************************)
(* Team names                                                              *)
(***************************************************************************)
\* user.display_name || user.username || 'Unknown'
UserName(user) ==
    IF OrEmpty(user, "display_name") # <<>> THEN user.display_name
    ELSE IF OrEmpty(user, "username") # <<>> THEN user.username
    ELSE Unknown

\* userMap[user.user_id] = ...: the last user with an id sets its entry
UserMap(users) ==
    [id \in {users[k].user_id : k \in 1..Len(users)} |->
        UserName(users[CHOOSE k \in 1..Len(users) :
                          /\ users[k].user_id = id
                          /\ \A j \in (k + 1)..Len(users) : users[j].user_id # id])]

\* rosterToUser[roster.roster_id] = userMap[roster.owner_id] || 'Unknown'
RosterToUser(users, rosters) ==
    [rid \in {rosters[k].roster_id : k \in 1..Len(rosters)} |->
        LET roster == rosters[CHOOSE k \in 1..Len(rosters) :
                                 /\ rosters[k].roster_id = rid
                                 /\ \A j \in (k + 1)..Len(rosters) : rosters[j].roster_id # rid]
        IN  IF "owner_id" \in DOMAIN roster /\ roster.owner_id \in DOMAIN UserMap(users)
            THEN UserMap(users)[roster.owner_id]
            ELSE Unknown]

\* rosterToUser[id] || `Roster ${id}`, for an id that may be undefined
RosterName(id, rosterToUser) ==
    IF id # <<>> /\ id[1] \in DOMAIN rosterToUser THEN rosterToUser[id[1]]
    ELSE <<"Roster ">> \o (IF id = <<>> THEN <<"undefined">> ELSE NumberToString(id[1]))

\* rosterToUser[id] || 'Unknown'
TeamName(id, rosterToUser) ==
    IF id # <<>> /\ id[1] \in DOMAIN rosterToUser THEN rosterToUser[id[1]] ELSE Unknown

(***************************************************************************)
(* Playoff brackets                                                        *)
(***************************************************************************)
\* A variant that prefers the forward reference.
getTeamNameFromFirst(teamId, teamFrom, rosterToUser) ==
    IF teamFrom # <<>> /\ "w" \in DOMAIN teamFrom[1]
    THEN <<"Winner of Match ">> \o NumberToString(teamFrom[1].w)
    ELSE IF teamFrom # <<>> /\ "l" \in DOMAIN teamFrom[1]
         THEN <<"Loser of Match ">> \o NumberToString(teamFrom[1].l)
    ELSE IF teamId # <<>> THEN RosterName(teamId, rosterToUser)
    ELSE <<"TBD">>

getTeamName(teamId, teamFrom, rosterToUser) ==
    IF teamId # <<>> THEN RosterName(teamId, rosterToUser)
    ELSE IF teamFrom # <<>> /\ "w" \in DOMAIN teamFrom[1]
         THEN <<"Winner of Match ">> \o NumberToString(teamFrom[1].w)
    ELSE IF teamFrom # <<>> /\ "l" \in DOMAIN teamFrom[1]
         THEN <<"Loser of Match ">> \o NumberToString(teamFrom[1].l)
    ELSE <<"TBD">>

formatMatch(match, rosterToUser) ==
    LET t1Name == getTeamName(Opt(match, "t1"), Opt(match, "t1_from"), rosterToUser)
        t2Name == getTeamName(Opt(match, "t2"), Opt(match, "t2_from"), rosterToUser)
        status == IF "w" \in DOMAIN match
                  THEN <<"(check) ">> \o RosterName(Opt(match, "w"), rosterToUser)
                           \o <<" defeats ">> \o RosterName(Opt(match, "l"), rosterToUser)
                  ELSE <<"(hourglass) Pending">>
        positionText == IF "p" \in DOMAIN match /\ match.p # 0
                        THEN <<" (Position ">> \o NumberToString(match.p) \o <<")">>
                        ELSE <<>>
    IN  <<"  Match ">> \o NumberToString(match.m) \o <<": ">> \o t1Name \o <<" vs ">>
            \o t2Name \o <<" - ">> \o status \o positionText

\* Object.keys(rounds).map(Number).sort(): no comparator
RoundsInOrder(bracket) == DefaultSort({bracket[k].r : k \in 1..Len(bracket)})

\* One round of formatBracket: its two heading lines and its matches by match id.
RoundLines(bracket, roundNum, rosterToUser) ==
    LET inRound == SelectSeq(bracket, LAMBDA match : match.r = roundNum)
        sortedMatches == SortByKey(inRound, [k \in 1..Len(inRound) |-> inRound[k].m])
    IN  << <<"\n", "ROUND ">> \o NumberToString(roundNum) \o <<":">>, Repeat("-", 20) >>
            \o [k \in 1..Len(sortedMatches) |-> formatMatch(sortedMatches[k], rosterToUser)]

RECURSIVE Concat(_)
Concat(lists) == IF lists = <<>> THEN <<>> ELSE Head(lists) \o Concat(Tail(lists))

formatBracket(bracket, rosterToUser) ==
    IF Len(bracket) = 0 THEN << <<"No bracket data available">> >>
    ELSE LET rounds == RoundsInOrder(bracket)
         IN  Concat([n \in 1..Len(rounds) |-> RoundLines(bracket, rounds[n], rosterToUser)])

\* A variant that takes the match listed last.
ReduceLastMatch(bracket, max) == IF bracket = <<>> THEN max ELSE bracket[Len(bracket)]

\* winnersBracket.reduce((max, match) => match.r > max.r ? match : max, winnersBracket[0])
RECURSIVE ReduceMaxRound(_, _)
ReduceMaxRound(bracket, max) ==
    IF bracket = <<>> THEN max
    ELSE ReduceMaxRound(Tail(bracket), IF Head(bracket).r > max.r THEN Head(bracket) ELSE max)

\* The place a losers-bracket match assigns its winner (lines 380-394), or 0.
PlaceOfAnyPosition(match) ==
    IF "p" \in DOMAIN match /\ match.p # 0 /\ "w" \in DOMAIN match /\ "l" \in DOMAIN match
    THEN match.p ELSE 0
PlaceOf(match) ==
    IF /\ "p" \in DOMAIN match /\ match.p \in {3, 5, 7}
       /\ "w" \in DOMAIN match /\ "l" \in DOMAIN match
    THEN match.p ELSE 0

\* The standings object after the loop over the losers bracket.
RECURSIVE LosersStandings(_, _, _)
LosersStandings(losersBracket, rosterToUser, standings) ==
    IF losersBracket = <<>> THEN standings
    ELSE LET match == Head(losersBracket)
             position == PlaceOf(match)
             next == IF position = 0 THEN standings
                     ELSE (position :> RosterName(Opt(match, "w"), rosterToUser))
                            @@ ((position + 1) :> RosterName(Opt(match, "l"), rosterToUser))
                            @@ standings
         IN  LosersStandings(Tail(losersBracket), rosterToUser, next)

PlaceLine(pos, name) ==
    CASE pos = 1 -> <<"(gold) 1st Place: ">> \o name
      [] pos = 2 -> <<"(silver) 2nd Place: ">> \o name
      [] pos = 3 -> <<"(bronze) 3rd Place: ">> \o name
      [] OTHER -> <<"   ">> \o NumberToString(pos) \o <<"th Place: ">> \o name

\* An always-reporting variant: it does not test the winners.
standingsIgnoringPending(allMatches) == TRUE
\* allMatches.every(match => match.w !== undefined)
AllDecided(allMatches) == \A k \in 1..Len(allMatches) : "w" \in DOMAIN allMatches[k]

\* null is <<>>, a list of lines is <<lines>>
generateFinalStandings(winnersBracket, losersBracket, rosterToUser) ==
    IF ~AllDecided(winnersBracket \o losersBracket) THEN <<>>
    ELSE LET top == IF winnersBracket = <<>> THEN <<>>
                    ELSE LET winnersFinal == ReduceMaxRound(winnersBracket, winnersBracket[1])
                         IN  IF "w" \in DOMAIN winnersFinal
                             THEN (1 :> RosterName(Opt(winnersFinal, "w"), rosterToUser))
                                    @@ (2 :> RosterName(Opt(winnersFinal, "l"), rosterToUser))
                             ELSE <<>>
             standings == LosersStandings(losersBracket, rosterToUser, top)
             places == DefaultSort(DOMAIN standings)
         IN  IF Cardinality(DOMAIN standings) < 2 THEN <<>>
             ELSE << [n \in 1..Len(places) |-> PlaceLine(places[n], standings[places[n]])] >>

\* getPlayoffResults after its fetches: the text it returns
PlayoffResults(winnersBracket, losersBracket, leagueUsers, rosters) ==
    LET rosterToUser == RosterToUser(leagueUsers, rosters)
        finalStandings == generateFinalStandings(winnersBracket, losersBracket, rosterToUser)
    IN  Join((IF Len(winnersBracket) > 0
              THEN << <<"(trophy) WINNERS BRACKET">>, Repeat("=", 50) >>
                     \o formatBracket(winnersBracket, rosterToUser) \o << <<>> >>
              ELSE <<>>)
             \o (IF Len(losersBracket) > 0
                 THEN << <<"(third) LOSERS BRACKET">>, Repeat("=", 50) >>
                        \o formatBracket(losersBracket, rosterToUser) \o << <<>> >>
                 ELSE <<>>)
             \o (IF finalStandings # <<>> /\ Len(finalStandings[1]) > 0
                 THEN << <<"(medal) FINAL STANDINGS">>, Repeat("=", 50) >> \o finalStandings[1]
                 ELSE <<>>),
             "\n")

(***************************************************************************)
(* Payloads of a league: users, rosters with owners, playoff brackets      *)
(***************************************************************************)
LeagueUsers ==
    << [user_id |-> "u1", display_name |-> <<"A", "n", "n">>, username |-> <<"a">>],
       [user_id |-> "u2", username |-> <<"b", "o">>],
       [user_id |-> "u3"] >>

\* Rosters 1..3 have owners with, in turn, a display name, a username and
\* neither; roster 4 has no owner and roster 5 an owner that left the league.
RostersOwned ==
    << [roster_id |-> 1, owner_id |-> "u1"], [roster_id |-> 2, owner_id |-> "u2"],
       [roster_id |-> 3, owner_id |-> "u3"], [roster_id |-> 4],
       [roster_id |-> 5, owner_id |-> "u9"] >>

LeagueRosters == {RostersOwned, RostersTwo}

Semi1 == [m |-> 1, r |-> 1, t1 |-> 1, t2 |-> 4, w |-> 1, l |-> 4]
Semi2 == [m |-> 2, r |-> 1, t1 |-> 2, t2 |-> 3, w |-> 3, l |-> 2]
Final == [m |-> 3, r |-> 2, t1 |-> 1, t2 |-> 3, w |-> 3, l |-> 1, p |-> 1]
ThirdPlace == [m |-> 4, r |-> 2, t1 |-> 4, t2 |-> 2, w |-> 2, l |-> 4, p |-> 3]
FinalPending ==
    [m |-> 3, r |-> 2, t1_from |-> [w |-> 1], t2_from |-> [w |-> 2], p |-> 1]
FinalNoLoser == [m |-> 3, r |-> 2, t1 |-> 1, t2 |-> 3, w |-> 1]
LateRound == [m |-> 5, r |-> 10, t1 |-> 3, t2 |-> 6, w |-> 6, l |-> 3]

\* Matches whose teams are given directly and by a forward reference at
\* once, by a forward reference to a decided match, by an empty reference
\* or not at all; roster 9 is not a roster of the league.
BothGiven ==
    [m |-> 6, r |-> 2, t1 |-> 9, t1_from |-> [w |-> 1], t2 |-> 1, t2_from |-> [l |-> 2]]
Undetermined == [m |-> 7, r |-> 2, t1_from |-> [l |-> 1]]
EmptyFrom == [m |-> 8, r |-> 3, t1_from |-> [w |-> 2, l |-> 1], t2_from |-> <<>>]
ForwardBrackets == { <<Semi1, Semi2, BothGiven, Undetermined, EmptyFrom>> }

\* Bodies of /league/<id>/winners_bracket
WinnersBrackets ==
    { <<>>,
      <<Semi1, Semi2, Final>>,
      <<Final, Semi2, Semi1>>,
      <<Semi1, Semi2, ThirdPlace, Final>>,
      <<Semi1, Semi2, FinalPending>>,
      <<Semi2, LateRound, Final>>,
      <<Semi1, FinalNoLoser>> }

Fifth == [m |-> 1, r |-> 1, t1 |-> 5, t2 |-> 6, w |-> 5, l |-> 6, p |-> 5]
Third == [m |-> 2, r |-> 2, t1 |-> 4, t2 |-> 2, w |-> 2, l |-> 4, p |-> 3]
ThirdAgain == [m |-> 3, r |-> 2, t1 |-> 5, t2 |-> 6, w |-> 6, l |-> 5, p |-> 3]
Seventh == [m |-> 4, r |-> 3, t1 |-> 7, t2 |-> 8, w |-> 8, l |-> 7, p |-> 7]
Consolation == [m |-> 5, r |-> 3, t1 |-> 5, t2 |-> 4, w |-> 4, l |-> 5, p |-> 1]
NoPlace == [m |-> 6, r |-> 1, t1 |-> 7, t2 |-> 8, w |-> 7, l |-> 8]
ThirdPending == [m |-> 2, r |-> 2, t1_from |-> [l |-> 1], t2 |-> 2, p |-> 3]
ThirdNoLoser == [m |-> 2, r |-> 2, t1 |-> 4, t2 |-> 2, w |-> 2, p |-> 3]

\* Bodies of /league/<id>/losers_bracket
LosersBrackets ==
    { <<>>,
      <<Third>>,
      <<Seventh, Fifth, Third>>,
      <<Third, ThirdAgain>>,
      <<Consolation, NoPlace>>,
      <<Fifth, ThirdPending>>,
      <<ThirdNoLoser, Fifth>> }

(***************************************************************************)
(* Matchups                                                                *)
(***************************************************************************)
UpperCase ==
    {"A", "B", "C", "D", "E", "F", "G", "H", "I", "J", "K", "L", "M", "N", "O", "P", "Q",
     "R", "S", "T", "U", "V", "W", "X", "Y", "Z"}

NotAvailable == <<"N", "/", "A">>
EmptySlot == <<"E", "m", "p", "t", "y", " ", "S", "l", "o", "t">>

\* formatStarters: playerInfo of one starter
StarterInfo(playerId, dir) ==
    IF playerId = <<"0">> THEN EmptySlot
    ELSE IF /\ Len(playerId) <= 3 /\ Len(playerId) >= 1
            /\ \A k \in 1..Len(playerId) : playerId[k] \in UpperCase
         THEN playerId \o <<" ", "D", "S", "T">>
    ELSE IF playerId \in DOMAIN dir
         THEN LET player == dir[playerId]
                  position == IF OrEmpty(player, "position") # <<>> THEN player.position
                              ELSE NotAvailable
                  team == IF OrEmpty(player, "team") # <<>> THEN player.team
                          ELSE NotAvailable
              IN  DisplayName(player) \o <<" ", "(">> \o position \o <<",", " ">> \o team
                      \o <<")">>
    ELSE UnknownPlayer

\* starterPoints[i]?.toFixed(1) || '0.0'
StarterPoints(starterPoints, i) ==
    IF i <= Len(starterPoints) /\ starterPoints[i] # <<>>
    THEN ToFixed(starterPoints[i][1], 1)
    ELSE ToFixed(0, 1)

\* formatStarters reads starters.length and, for a starter, starterPoints[i].
StartersFail(team) ==
    \/ "starters" \notin DOMAIN team
    \/ "starters_points" \notin DOMAIN team /\ Len(team.starters) > 0

formatStarters(starters, starterPoints, dir) ==
    Join([i \in 1..Len(starters) |->
             <<" ", " ">> \o PadEnd(StarterInfo(starters[i], dir), 35) \o <<" ">>
                 \o PadStart(StarterPoints(starterPoints, i), 6) \o <<" pts">>],
         "\n")

\* A variant in which matchupGroups outlives the call that filled it.
MatchupGroupKept(matchups, matchupId) ==
    LET group == SelectSeq(matchups, LAMBDA matchup : Opt(matchup, "matchup_id") = matchupId)
    IN  IF fmtOut = <<>> THEN group ELSE group \o group

\* matchupGroups[matchup.matchup_id], filled in the order of the payload;
\* a matchup without matchup_id goes under the key "undefined" (<<>>).
MatchupGroup(matchups, matchupId) ==
    SelectSeq(matchups, LAMBDA matchup : Opt(matchup, "matchup_id") = matchupId)

\* A variant that lets the first listed team win a tie.
WinnerOrFirst(team1, team2) ==
    IF team1.points >= team2.points THEN <<team1>> ELSE <<team2>>

\* team1.points > team2.points ? team1 : (team2.points > team1.points ? team2 : null)
Winner(team1, team2) ==
    IF team1.points > team2.points THEN <<team1>>
    ELSE IF team2.points > team1.points THEN <<team2>>
    ELSE <<>>

\* The lines of one team: its name, score and winner marker, its starters
\* and an empty line.
TeamLines(team, winner, rosterToUser, dir) ==
    << TeamName(<<team.roster_id>>, rosterToUser) \o <<": ">> \o ToFixed(team.points, 2)
           \o (IF winner # <<>> /\ winner[1].roster_id = team.roster_id
               THEN <<" (trophy)">> ELSE <<>>),
       formatStarters(team.starters,
                      IF "starters_points" \in DOMAIN team THEN team.starters_points ELSE <<>>,
                      dir),
       <<>> >>

\* A pairing reads the points, the starters and the starter points of its teams.
PairingFails(teams) ==
    \E k \in 1..2 : "points" \notin DOMAIN teams[k] \/ StartersFail(teams[k])

\* The lines of the pairing under one key of matchupGroups.
PairingLines(teams, matchupId, rosterToUser, dir) ==
    IF Len(teams) # 2 THEN <<>>
    ELSE LET sorted == SortByKey(teams, [k \in 1..2 |-> 0 - teams[k].points])
             winner == Winner(sorted[1], sorted[2])
         IN  << <<"MATCHUP ">> \o NumberToString(matchupId), Repeat("-", 40) >>
                 \o TeamLines(sorted[1], winner, rosterToUser, dir)
                 \o TeamLines(sorted[2], winner, rosterToUser, dir)

formatMatchupsTable(matchups, users, rosters, week, dir) ==
    IF Len(matchups) = 0 THEN Returned(Text(<<"No matchup data available">>))
    ELSE LET rosterToUser == RosterToUser(users, rosters)
             ids == {matchups[k].matchup_id :
                        k \in {n \in 1..Len(matchups) : "matchup_id" \in DOMAIN matchups[n]}}
             order == DefaultSort(ids)
             Teams(n) == MatchupGroup(matchups, <<order[n]>>)
         IN  IF \/ \E k \in 1..Len(matchups) : "matchup_id" \notin DOMAIN matchups[k]
                \/ \E n \in 1..Len(order) : Len(Teams(n)) = 2 /\ PairingFails(Teams(n))
             THEN Thrown(TypeError)
             ELSE Returned(Text(Join(
                      << <<"WEEK ">> \o NumberToString(week) \o <<" MATCHUPS">>,
                         Repeat("=", 80), <<>> >>
                        \o Concat([n \in 1..Len(order) |->
                                      PairingLines(Teams(n), order[n], rosterToUser, dir)]),
                      "\n")))

\* Bodies of /league/<id>/matchups/<week>: one record per team.
TeamA ==
    [roster_id |-> 1, matchup_id |-> 1, points |-> 98,
     starters |-> <<Id1, <<"0">>, <<"K", "C">> >>,
     starters_points |-> << <<12>>, <<>>, <<7>> >>]
TeamB ==
    [roster_id |-> 2, matchup_id |-> 1, points |-> 120,
     starters |-> <<Id3, <<"9">> >>, starters_points |-> << <<0>> >>]
TeamC ==
    [roster_id |-> 3, matchup_id |-> 2, points |-> 77,
     starters |-> <<Id2>>, starters_points |-> << <<5>> >>]
TeamD ==
    [roster_id |-> 4, matchup_id |-> 2, points |-> 77,
     starters |-> <<Id4>>, starters_points |-> << <<31>> >>]
TeamE ==
    [roster_id |-> 5, matchup_id |-> 10, points |-> 50,
     starters |-> <<>>, starters_points |-> <<>>]
TeamF ==
    [roster_id |-> 6, matchup_id |-> 10, points |-> 60, starters |-> <<>>]
TeamBye ==
    [roster_id |-> 7, points |-> 30, starters |-> <<Id1>>, starters_points |-> << <<3>> >>]
TeamNoPoints ==
    [roster_id |-> 2, matchup_id |-> 1, starters |-> <<Id1>>, starters_points |-> << <<3>> >>]
TeamSolo == [roster_id |-> 8, matchup_id |-> 3]
TeamThird ==
    [roster_id |-> 3, matchup_id |-> 1, points |-> 101,
     starters |-> <<Id2>>, starters_points |-> << <<5>> >>]

MatchupPayloads ==
    { <<>>,
      <<TeamA, TeamB>>,
      <<TeamB, TeamA>>,
      <<TeamA, TeamC, TeamB, TeamD>>,
      <<TeamD, TeamC, TeamE, TeamF, TeamSolo>>,
      <<TeamA, TeamB, TeamBye>>,
      <<TeamA, TeamNoPoints>>,
      <<TeamC, TeamA, TeamB>>,
      <<TeamA, TeamThird, TeamB, TeamE, TeamF, TeamD>> }

Weeks == {1, 14}

(***************************************************************************)
(* Player ranks                                                            *)
(***************************************************************************)
\* .slice(0, 200)
RanksLimit == 200

RanksHeader ==
    <<"R", "a", "n", "k", " ", "|", " ", "P", "o", "s", " ", "R", "a", "n", "k", " ", "|",
      " ", "P", "l", "a", "y", "e", "r", " ", "N", "a", "m", "e", " ", " ", " ", " ", " ",
      " ", " ", " ", " ", " ", " ", " ", " ", " ", " ", " ", "|", " ", "P", "o", "s", " ",
      "|", " ", "T", "e", "a", "m", " ", "|", " ", "P", "P", "R", " ", "P", "t", "s">>

\* A variant that lists every record.
RankedAlways(playerData) == TRUE

\* player.player_id && player.stats && player.stats.rank_ppr
Ranked(playerData) ==
    /\ OrEmpty(playerData, "player_id") # <<>>
    /\ "stats" \in DOMAIN playerData
    /\ "rank_ppr" \in DOMAIN playerData.stats
    /\ playerData.stats.rank_ppr # 0

\* data.filter(...).sort((a, b) => a.stats.rank_ppr - b.stats.rank_ppr).slice(0, 200)
SortedPlayers(data) ==
    LET ranked == SelectSeq(data, Ranked)
        sorted == SortByKey(ranked, [k \in 1..Len(ranked) |-> ranked[k].stats.rank_ppr])
    IN  SubSeq(sorted, 1, IF Len(sorted) < RanksLimit THEN Len(sorted) ELSE RanksLimit)

\* `${rank} | ${posRank} | ${paddedName} | ${position} | ${team} | ${pprPts}`
RankRow(playerData, dir) ==
    LET playerId == playerData.player_id
        stats == playerData.stats
        known == playerId \in DOMAIN dir
        name == IF known THEN DisplayName(dir[playerId]) ELSE UnknownPlayer
        position == IF known /\ OrEmpty(dir[playerId], "position") # <<>>
                    THEN dir[playerId].position ELSE NotAvailable
        team == IF known /\ OrEmpty(dir[playerId], "team") # <<>>
                THEN dir[playerId].team ELSE NotAvailable
        pprPts == IF "pts_ppr" \in DOMAIN stats THEN stats.pts_ppr ELSE 0
    IN  PadStart(NumberToString(stats.rank_ppr), 4) \o Bar
            \o PadStart(NumberToString(stats.pos_rank_ppr), 8) \o Bar
            \o PadEnd(name, 26) \o Bar \o PadEnd(position, 3) \o Bar
            \o PadEnd(team, 4) \o Bar \o PadStart(ToFixed(pprPts, 1), 7)

formatPlayerRanksTable(data, dir) ==
    IF Len(data) = 0 THEN Returned(Text(<<"No player rankings data available">>))
    ELSE LET sortedPlayers == SortedPlayers(data)
         IN  IF \E k \in 1..Len(sortedPlayers) :
                    "pos_rank_ppr" \notin DOMAIN sortedPlayers[k].stats
             THEN Thrown(TypeError)
             ELSE Returned(Text(Join(
                      <<RanksHeader, Repeat("-", Len(RanksHeader))>>
                        \o [k \in 1..Len(sortedPlayers) |-> RankRow(sortedPlayers[k], dir)],
                      "\n")))

\* Bodies of the season statistics endpoint: one record per player.
RankOf(playerId, rank, posRank, pts) ==
    [player_id |-> playerId, stats |-> [rank_ppr |-> rank, pos_rank_ppr |-> posRank,
                                         pts_ppr |-> pts]]

RanksMixed ==
    << RankOf(Id2, 3, 2, 150),
       [player_id |-> Id1, stats |-> [rank_ppr |-> 1, pos_rank_ppr |-> 1]],
       RankOf(<<"9">>, 2, 1, 0),
       [player_id |-> Id3, stats |-> [pos_rank_ppr |-> 4, pts_ppr |-> 9]],
       [stats |-> [rank_ppr |-> 4, pos_rank_ppr |-> 4, pts_ppr |-> 8]],
       [player_id |-> Id4],
       RankOf(Id3, 12, 5, 7) >>

RanksTied == << RankOf(Id1, 5, 2, 40), RankOf(Id2, 5, 1, 40), RankOf(Id4, 2, 9, 90) >>

RanksNoPosRank ==
    << RankOf(Id1, 2, 1, 40), [player_id |-> Id2, stats |-> [rank_ppr |-> 1, pts_ppr |-> 60]] >>

RanksZero ==
    << RankOf(Id1, 0, 1, 40), RankOf(<<>>, 1, 1, 30), RankOf(Id2, 7, 3, 20) >>

\* A season with more ranked players than the table shows: ranks descend
\* along the list, every 70th record has no player id, and the player ranked
\* last has no positional rank.
RanksLongLength == 210

RanksLong ==
    [i \in 1..RanksLongLength |->
        IF i % 70 = 0
        THEN [stats |-> [rank_ppr |-> RanksLongLength + 1 - i, pos_rank_ppr |-> 1]]
        ELSE IF i = 1
        THEN [player_id |-> NumberToString(i), stats |-> [rank_ppr |-> RanksLongLength]]
        ELSE RankOf(NumberToString(i), RanksLongLength + 1 - i, 1 + (i % 30), i)]

RanksPayloads == {<<>>, RanksMixed, RanksTied, RanksNoPosRank, RanksZero, RanksLong}

(***************************************************************************)
(* Draft picks                                                             *)
(***************************************************************************)
DraftHeader ==
    <<"R", "o", "u", "n", "d", " ", "|", " ", "P", "i", "c", "k", " ", "|", " ", "P", "l",
      "a", "y", "e", "r", " ", "N", "a", "m", "e", " ", " ", " ", " ", " ", " ", " ", " ",
      " ", " ", " ", " ", " ", " ", " ", " ", "|", " ", "P", "o", "s", " ", "|", " ", "N",
      "F", "L", " ", "T", "e", "a", "m", " ", "|", " ", "D", "r", "a", "f", "t", "e", "d",
      " ", "B", "y", " ", "T", "e", "a", "m">>

\* pick.metadata?.field || ''
Metadata(pick, field) ==
    IF "metadata" \in DOMAIN pick THEN OrEmpty(pick.metadata, field) ELSE <<>>

\* `${firstName} ${lastName}`.trim() || 'Unknown Player'
PickName(pick) ==
    LET playerName == Trim(Metadata(pick, "first_name") \o <<" ">>
                               \o Metadata(pick, "last_name"))
    IN  IF playerName # <<>> THEN playerName ELSE UnknownPlayer

\* `${round} | ${pickNo} | ${paddedName} | ${position} | ${nflTeam} | ${draftedBy}`
PickRow(pick, rosterToUser) ==
    LET position == IF Metadata(pick, "position") # <<>>
                    THEN Metadata(pick, "position") ELSE NotAvailable
        nflTeam == IF Metadata(pick, "team") # <<>>
                   THEN Metadata(pick, "team") ELSE NotAvailable
        draftedBy == TeamName(Opt(pick, "roster_id"), rosterToUser)
    IN  PadStart(NumberToString(pick.round), 5) \o Bar
            \o PadStart(NumberToString(pick.pick_no), 4) \o Bar
            \o PadEnd(PickName(pick), 26) \o Bar \o PadEnd(position, 3) \o Bar
            \o PadEnd(nflTeam, 8) \o Bar \o PadEnd(draftedBy, 15)

formatDraftPicksTable(picks, users, rosters) ==
    IF Len(picks) = 0 THEN Text(<<"No draft picks data available">>)
    ELSE LET rosterToUser == RosterToUser(users, rosters)
         IN  Text(Join(<<DraftHeader, Repeat("-", Len(DraftHeader))>>
                         \o [k \in 1..Len(picks) |-> PickRow(picks[k], rosterToUser)],
                       "\n"))

\* Bodies of /draft/<id>/picks.
PickYoung ==
    [round |-> 1, pick_no |-> 1, roster_id |-> 3,
     metadata |-> [first_name |-> <<"B", "r", "y", "c", "e">>, last_name |-> <<"Y", "o", "u", "n", "g">>,
                   position |-> <<"Q", "B">>, team |-> <<"C", "A", "R">>]]
PickFirstOnly ==
    [round |-> 1, pick_no |-> 2, roster_id |-> 1,
     metadata |-> [first_name |-> <<"T">>, position |-> <<"K">>]]
PickNoNames ==
    [round |-> 2, pick_no |-> 13, roster_id |-> 2,
     metadata |-> [position |-> <<"D", "E", "F">>, team |-> <<"S", "F">>]]
PickBlankNames ==
    [round |-> 2, pick_no |-> 14, roster_id |-> 4,
     metadata |-> [first_name |-> <<" ">>, last_name |-> <<>>]]
PickNoMetadata == [round |-> 10, pick_no |-> 115, roster_id |-> 9]
PickNoRoster == [round |-> 3, pick_no |-> 25, metadata |-> [last_name |-> <<"L">>]]

PickLongTeam ==
    [round |-> 1, pick_no |-> 2, roster_id |-> 7,
     metadata |-> [first_name |-> <<"J", "o">>, last_name |-> <<"B">>,
                   position |-> <<"W", "R">>, team |-> <<"N", "Y", "G">>]]

\* A league whose roster 3 belongs to "Team A" and whose roster 7 belongs to
\* a user with a display name of 16 characters.
DraftUsers ==
    << [user_id |-> "u1", display_name |-> <<"T", "e", "a", "m", " ", "A">>],
       [user_id |-> "u2",
        display_name |-> <<"G", "r", "i", "d", "i", "r", "o", "n", " ", "G", "i", "a",
                           "n", "t", "s", "!">>] >>
DraftRosters == << [roster_id |-> 3, owner_id |-> "u1"], [roster_id |-> 7, owner_id |-> "u2"] >>

PickPayloads ==
    { <<>>, <<PickYoung>>, <<PickYoung, PickFirstOnly, PickNoNames>>,
      <<PickBlankNames, PickNoMetadata, PickNoRoster>>, <<PickYoung, PickLongTeam>> }

(***************************************************************************)
(* Projections.  The payload maps week numbers to a projection, <<p>>, or  *)
(* to null, <<>>; an absent payload is <<>> and a payload is <<object>>.   *)
(* A date is the month and the day of its calendar date.                   *)
(***************************************************************************)
ProjectionsHeadWeek == <<"W", "e", "e", "k", " ", "|", " ", "D", "a", "t", "e", " ", " ", " ", " ", " ", " ", " ", "|", " ", "O", "p", "p">>
ProjectionsHeadPassing == <<" ", "|", " ", "P", "a", "s", "s", " ", "Y", "d", "s", " ", "|", " ", "P", "a", "s", "s", " ", "T", "D", "s">>
ProjectionsHeadRushing == <<" ", "|", " ", "R", "u", "s", "h", " ", "Y", "d", "s", " ", "|", " ", "R", "u", "s", "h", " ", "T", "D", "s">>
ProjectionsHeadReceiving ==
    <<" ", "|", " ", "R", "e", "c", " ", "|", " ", "R", "e", "c", " ", "Y", "d", "s", " ",
      "|", " ", "R", "e", "c", " ", "T", "D", "s">>
ProjectionsHeadPoints == <<" ", "|", " ", "P", "P", "R", " ", "P", "t", "s">>
ToBeDetermined == <<"T", "B", "D">>

\* Object.keys(projections).filter(key => projections[key] !== null)
\*     .sort((a, b) => parseInt(a) - parseInt(b))
RECURSIVE WeeksInOrder(_)
WeeksInOrder(weeks) ==
    IF weeks = {} THEN <<>>
    ELSE LET first == CHOOSE w \in weeks : \A v \in weeks : w <= v
         IN  <<first>> \o WeeksInOrder(weeks \ {first})

ProjectionWeeks(projections) ==
    WeeksInOrder({w \in DOMAIN projections : projections[w] # <<>>})

\* proj.stats || {}
StatsOf(proj) == IF "stats" \in DOMAIN proj THEN proj.stats ELSE <<>>

\* stats.field || 0
Stat(stats, field) == IF field \in DOMAIN stats THEN stats[field] ELSE 0

\* toLocaleDateString('en-US', { month: 'numeric', day: 'numeric' })
LocaleDate(date) == NumberToString(date.month) \o <<"/">> \o NumberToString(date.day)

ProjectionRow(week, proj, hasPassingStats, hasRushingStats, hasReceivingStats) ==
    LET stats == StatsOf(proj)
        date == IF "date" \in DOMAIN proj THEN LocaleDate(proj.date) ELSE ToBeDetermined
        opponent == IF OrEmpty(proj, "opponent") # <<>> THEN proj.opponent
                    ELSE ToBeDetermined
    IN  PadStart(NumberToString(week), 2) \o <<" ", " ", " ", "|", " ">>
            \o PadEnd(date, 10) \o Bar \o PadEnd(opponent, 3)
            \o (IF hasPassingStats
                THEN Bar \o PadStart(NumberToString(Stat(stats, "pass_yd")), 8)
                         \o Bar \o PadStart(ToFixed(Stat(stats, "pass_td"), 1), 8)
                ELSE <<>>)
            \o (IF hasRushingStats
                THEN Bar \o PadStart(NumberToString(Stat(stats, "rush_yd")), 8)
                         \o Bar \o PadStart(ToFixed(Stat(stats, "rush_td"), 1), 8)
                ELSE <<>>)
            \o (IF hasReceivingStats
                THEN Bar \o PadStart(ToFixed(Stat(stats, "rec"), 1), 3)
                         \o Bar \o PadStart(NumberToString(Stat(stats, "rec_yd")), 7)
                         \o Bar \o PadStart(ToFixed(Stat(stats, "rec_td"), 1), 7)
                ELSE <<>>)
            \o Bar \o PadStart(ToFixed(Stat(stats, "pts_ppr"), 1), 7)

\* A variant that takes the last week.
LastWeek(projections, weeks) == projections[weeks[Len(weeks)]][1]

\* const firstWeek = projections[weeks[0]]
FirstWeek(projections, weeks) == projections[weeks[1]][1]

formatProjectionsTable(projections) ==
    IF projections = <<>> THEN Text(<<"No projections data available">>)
    ELSE LET weeks == ProjectionWeeks(projections[1])
         IN  IF Len(weeks) = 0 THEN Text(<<"No projection weeks available">>)
             ELSE LET stats == StatsOf(FirstWeek(projections[1], weeks))
                      hasPassingStats == "pass_yd" \in DOMAIN stats
                      hasReceivingStats == "rec" \in DOMAIN stats
                      hasRushingStats == "rush_yd" \in DOMAIN stats
                      header == ProjectionsHeadWeek
                                  \o (IF hasPassingStats THEN ProjectionsHeadPassing ELSE <<>>)
                                  \o (IF hasRushingStats THEN ProjectionsHeadRushing ELSE <<>>)
                                  \o (IF hasReceivingStats THEN ProjectionsHeadReceiving
                                      ELSE <<>>)
                                  \o ProjectionsHeadPoints
                  IN  Text(Join(<<header, Repeat("-", Len(header))>>
                                  \o [k \in 1..Len(weeks) |->
                                        ProjectionRow(weeks[k], projections[1][weeks[k]][1],
                                                      hasPassingStats, hasRushingStats,
                                                      hasReceivingStats)],
                                "\n"))

\* Bodies of the weekly projections endpoint.
WeekPasser ==
    [date |-> [month |-> 9, day |-> 8], opponent |-> <<"D", "A", "L">>,
     stats |-> [pass_yd |-> 250, pass_td |-> 2, rush_yd |-> 12, rush_td |-> 0,
                pts_ppr |-> 18]]
WeekPasserThin == [opponent |-> <<"N", "O">>, stats |-> [pass_yd |-> 190]]
WeekReceiver ==
    [date |-> [month |-> 11, day |-> 23], opponent |-> <<"K", "C">>,
     stats |-> [rec |-> 6, rec_yd |-> 70, rec_td |-> 1, rush_yd |-> 4, pts_ppr |-> 19]]
WeekReceiverThin == [date |-> [month |-> 12, day |-> 1], stats |-> [rec |-> 3]]
WeekReceiverBusy ==
    [date |-> [month |-> 1, day |-> 4], opponent |-> <<"G", "B">>,
     stats |-> [rec |-> 11, rec_yd |-> 130, rec_td |-> 2, pts_ppr |-> 36]]
WeekNoStats == [date |-> [month |-> 10, day |-> 5], opponent |-> <<"L", "V">>]
WeekEmptyStats == [opponent |-> <<"S", "F">>, stats |-> <<>>]

ProjectionPayloads ==
    { <<>>,
      << [w \in {} |-> <<>>] >>,
      << (3 :> <<>>) >>,
      << (1 :> <<WeekPasser>>) @@ (2 :> <<>>) @@ (3 :> <<WeekPasserThin>>)
           @@ (10 :> <<WeekNoStats>>) >>,
      << (2 :> <<WeekReceiver>>) @@ (4 :> <<WeekReceiverThin>>) @@ (5 :> <<WeekPasser>>)
           @@ (11 :> <<WeekEmptyStats>>) >>,
      << (1 :> <<WeekNoStats>>) @@ (2 :> <<WeekPasser>>) >>,
      << (1 :> <<>>) @@ (7 :> <<WeekEmptyStats>>) @@ (8 :> <<WeekReceiver>>) >>,
      << (16 :> <<WeekReceiver>>) @@ (17 :> <<WeekReceiverBusy>>) >> }

(***************************************************************************)
(* Specifications                                                          *)
(***************************************************************************)
\* Directory-needing calls made by concurrent invocations while time passes.
CacheCalls == {[name |-> "find_player_id", flag |-> FALSE, input |-> <<"J">>]}

NextCache ==
    \/ \E d \in TickSteps : Tick(d)
    \/ \E i \in Inv, c \in CacheCalls : Start(i, c)
    \/ \E i \in Inv : EnsurePlayersLoaded(i)
    \/ \E i \in Inv : LoadPlayersCache(i)
    \/ \E i \in Inv, status \in Statuses, body \in Directories : PlayersResponse(i, status, body)
    \/ \E i \in Inv : PlayersLoaded(i)
    \/ \E i \in Inv : FuzzySearch(i)
    \/ \E i \in Inv : Return(i)

SpecCache == Init /\ [][NextCache]_vars

\* Every operation with every argument, one invocation after the other.
OpsInv == {1}

NextOps ==
    \/ \E i \in OpsInv, c \in Calls : Start(i, c)
    \/ \E i \in OpsInv : IssueFetch(i)
    \/ \E i \in OpsInv, ep \in Endpoints, status \in Statuses :
          \E body \in Bodies(ep) : FetchResponse(i, ep, status, body)
    \/ \E i \in OpsInv : GetNflState(i)
    \/ \E i \in OpsInv, status \in Statuses, body \in NflStates :
          NflStateResponse(i, status, body)
    \/ \E i \in OpsInv : ResolvePlayerInput(i)
    \/ \E i \in OpsInv : EnsurePlayersLoaded(i)
    \/ \E i \in OpsInv : LoadPlayersCache(i)
    \/ \E i \in OpsInv, status \in Statuses, body \in Directories :
          PlayersResponse(i, status, body)
    \/ \E i \in OpsInv : PlayersLoaded(i)
    \/ \E i \in OpsInv : FuzzySearch(i)
    \/ \E i \in OpsInv : Return(i)

SpecOps == Init /\ [][NextOps]_vars

\* The server from before init: a client calls tools by name.
CallTool(i, name, c) ==
    /\ name \in tools
    /\ c.name = ToolOperation(name)
    /\ Start(i, c)

NextServer ==
    \/ ServerInit
    \/ \E i \in OpsInv, name \in Catalog, c \in Calls : CallTool(i, name, c)
    \/ \E i \in OpsInv : IssueFetch(i)
    \/ \E i \in OpsInv, ep \in Endpoints, status \in Statuses :
          \E body \in Bodies(ep) : FetchResponse(i, ep, status, body)
    \/ \E i \in OpsInv : GetNflState(i)
    \/ \E i \in OpsInv, status \in Statuses, body \in NflStates :
          NflStateResponse(i, status, body)
    \/ \E i \in OpsInv : ResolvePlayerInput(i)
    \/ \E i \in OpsInv : EnsurePlayersLoaded(i)
    \/ \E i \in OpsInv : LoadPlayersCache(i)
    \/ \E i \in OpsInv, status \in Statuses, body \in Directories :
          PlayersResponse(i, status, body)
    \/ \E i \in OpsInv : PlayersLoaded(i)
    \/ \E i \in OpsInv : FuzzySearch(i)
    \/ \E i \in OpsInv : Return(i)

SpecServer == InitServer /\ [][NextServer]_vars

\* Concurrent invocations of operations that read the NFL state, while
\* time passes.
StateCalls == {c \in Calls : c.name \in {"getNflState", "getPlayerStats"}}

NextState ==
    \/ \E d \in TickSteps : Tick(d)
    \/ \E i \in Inv, c \in StateCalls : Start(i, c)
    \/ \E i \in Inv : GetNflState(i)
    \/ \E i \in Inv, status \in Statuses, body \in NflStates :
          NflStateResponse(i, status, body)
    \/ \E i \in Inv : IssueFetch(i)
    \/ \E i \in Inv, ep \in Endpoints, status \in Statuses :
          \E body \in Bodies(ep) : FetchResponse(i, ep, status, body)
    \/ \E i \in Inv : Return(i)

SpecState == Init /\ [][NextState]_vars

\* The private formatters applied to decoded payloads, on a client whose
\* directory is loaded.
MaxFormats == 2

BracketCalls ==
    [name : {"formatBracket"},
     bracket : WinnersBrackets \cup LosersBrackets \cup ForwardBrackets,
     users : {LeagueUsers}, rosters : LeagueRosters]

StandingsCalls ==
    [name : {"generateFinalStandings", "getPlayoffResults"},
     winnersBracket : WinnersBrackets, losersBracket : LosersBrackets,
     users : {LeagueUsers}, rosters : {RostersOwned}]

MatchupCalls ==
    [name : {"formatMatchupsTable"}, matchups : MatchupPayloads, users : {LeagueUsers},
     rosters : {RostersOwned}, week : Weeks]

RanksCalls == [name : {"formatPlayerRanksTable"}, data : RanksPayloads]

DraftCalls ==
    [name : {"formatDraftPicksTable"}, picks : PickPayloads, users : {LeagueUsers},
     rosters : {RostersOwned}]
        \cup [name : {"formatDraftPicksTable"}, picks : PickPayloads, users : {DraftUsers},
              rosters : {DraftRosters}]

ProjectionCalls == [name : {"formatProjectionsTable"}, projections : ProjectionPayloads]

FormatCalls ==
    BracketCalls \cup StandingsCalls \cup MatchupCalls \cup RanksCalls \cup DraftCalls
        \cup ProjectionCalls

InitFormat ==
    /\ \E dir \in Directories :
          LET new == refreshPlayersCache(dir, 0)
          IN  /\ players = new.players
              /\ playersCache = new.playersCache
              /\ playerSearchItems = new.items
              /\ playerFuse = <<new.items>>
              /\ lastPlayersData = <<dir>>
    /\ playersLoaded = TRUE
    /\ nflState = <<>>
    /\ now = 0
    /\ call = [i \in Inv |-> NoCall]
    /\ stage = [i \in Inv |-> 1]
    /\ pc = [i \in Inv |-> "idle"]
    /\ cacheData = [i \in Inv |-> <<>>]
    /\ inflight = [i \in Inv |-> {}]
    /\ sent = [i \in Inv |-> NoneSent]
    /\ recv = [i \in Inv |-> {}]
    /\ got = [i \in Inv |-> NoBodies]
    /\ resolved = [i \in Inv |-> <<>>]
    /\ lookup = [i \in Inv |-> <<>>]
    /\ result = [i \in Inv |-> NoResult]
    /\ fmtCall \in FormatCalls
    /\ fmtOut = <<>>
    /\ tools = init

\* A formatter is applied once more and yields `out`.
Applied(out) ==
    /\ Len(fmtOut) < MaxFormats
    /\ fmtOut' = Append(fmtOut, out)
    /\ UNCHANGED <<cacheVars, nflState, now, netVars, invVars, lastPlayersData, fmtCall,
                   tools>>

FormatBracket ==
    /\ fmtCall.name = "formatBracket"
    /\ Applied(Returned(formatBracket(fmtCall.bracket,
                                      RosterToUser(fmtCall.users, fmtCall.rosters))))

GenerateFinalStandings ==
    /\ fmtCall.name = "generateFinalStandings"
    /\ Applied(Returned(generateFinalStandings(
                            fmtCall.winnersBracket, fmtCall.losersBracket,
                            RosterToUser(fmtCall.users, fmtCall.rosters))))

GetPlayoffResults ==
    /\ fmtCall.name = "getPlayoffResults"
    /\ Applied(Returned(Text(PlayoffResults(fmtCall.winnersBracket, fmtCall.losersBracket,
                                            fmtCall.users, fmtCall.rosters))))

FormatMatchupsTable ==
    /\ fmtCall.name = "formatMatchupsTable"
    /\ Applied(formatMatchupsTable(fmtCall.matchups, fmtCall.users, fmtCall.rosters,
                                   fmtCall.week, players))

FormatPlayerRanksTable ==
    /\ fmtCall.name = "formatPlayerRanksTable"
    /\ Applied(formatPlayerRanksTable(fmtCall.data, players))

FormatDraftPicksTable ==
    /\ fmtCall.name = "formatDraftPicksTable"
    /\ Applied(Returned(formatDraftPicksTable(fmtCall.picks, fmtCall.users, fmtCall.rosters)))

FormatProjectionsTable ==
    /\ fmtCall.name = "formatProjectionsTable"
    /\ Applied(Returned(formatProjectionsTable(fmtCall.projections)))

NextFormat ==
    \/ FormatDraftPicksTable
    \/ FormatProjectionsTable
    \/ FormatBracket
    \/ GenerateFinalStandings
    \/ GetPlayoffResults
    \/ FormatMatchupsTable
    \/ FormatPlayerRanksTable

SpecFormat == InitFormat /\ [][NextFormat]_vars

(***************************************************************************)
(* Properties of the directory cache (SpecCache)                           *)
(***************************************************************************)
\* Invocation i has come out of ensurePlayersLoaded in the current turn.
JustEnsured(i) ==
    /\ pc[i] = "run"
    /\ stage[i] > 1
    /\ Script(call[i])[stage[i] - 1].k = "ensure"

\* Invocation i takes its ensurePlayersLoaded step.
EnsureStep(i) ==
    /\ AtStage(i, "ensure")
    /\ (pc'[i] # pc[i] \/ stage'[i] # stage[i])

\* C1: a directory-needing call made when the snapshot is 24h old or older
\* refreshes it, so a call never comes out of ensurePlayersLoaded holding a
\* snapshot whose age is 24h or more.
C1_ExpiredSnapshotIsRefreshed ==
    \A i \in Inv :
        (JustEnsured(i) /\ playersCache # <<>>)
            => now - playersCache[1].timestamp < 24 * 3600

\* C2: once the loaded flag is set, ensurePlayersLoaded called while the
\* snapshot is younger than 24h is a no-op: the call goes straight on, no
\* request is issued and the directory, the snapshot with its timestamp and
\* the search index are left as they are.
C2_FreshCallIsNoOp ==
    [][\A i \in Inv :
          (/\ EnsureStep(i)
           /\ playersLoaded
           /\ playersCache # <<>>
           /\ now - playersCache[1].timestamp < 24 * 3600)
          => /\ stage'[i] = stage[i] + 1
             /\ pc'[i] = "run"
             /\ UNCHANGED <<players, playersLoaded, playersCache, playerSearchItems,
                            playerFuse>>
             /\ UNCHANGED <<inflight, sent>>]_vars

C2_Witness ==
    \E i \in Inv :
        /\ JustEnsured(i)
        /\ sent[i]["players"] = 0
        /\ playersLoaded
        /\ playersCache # <<>>
        /\ now - playersCache[1].timestamp > 0
        /\ now - playersCache[1].timestamp < 24 * 3600

\* C3 as claimed: at most one full-directory fetch is in flight.
C3_SingleFlight == Cardinality({i \in Inv : "players" \in inflight[i]}) <= 1

\* C3 as amended: loads are not single-flight, every invocation that finds the
\* loaded flag unset issues its own full-directory fetch; but a fetch is
\* issued only while the flag is unset, and a call issues at most one.
C3_FetchOnlyWhileUnloaded ==
    /\ [](\A i \in Inv : sent[i]["players"] <= 1)
    /\ [][\A i \in Inv :
            sent'[i]["players"] > sent[i]["players"] => ~playersLoaded]_vars

C3_Witness == Cardinality({i \in Inv : "players" \in inflight[i]}) = 2

Loading(i) == pc[i] \in {"awaitCacheData", "awaitPlayers", "loadReturn"}

\* C4: once the concurrent loads have completed, the directory, the snapshot
\* and the search index all come from the directory response that was
\* decoded last.
C4_LastWriterWins ==
    ((\A i \in Inv : ~Loading(i)) /\ playersLoaded)
        => /\ lastPlayersData # <<>>
           /\ players = lastPlayersData[1]
           /\ playersCache # <<>>
           /\ playersCache[1].players = lastPlayersData[1]
           /\ playerSearchItems = buildPlayerSearchIndex(lastPlayersData[1])
           /\ playerFuse = <<buildPlayerSearchIndex(lastPlayersData[1])>>

C4_Witness ==
    \E i, j \in Inv :
        /\ result[i].status = "returned"
        /\ result[j].status = "returned"
        /\ sent[i]["players"] = 1
        /\ sent[j]["players"] = 1
        /\ got[i]["players"] # got[j]["players"]
        /\ lastPlayersData = <<got[j]["players"]>>

\* C5: in every state the search index holds exactly one entry
\* {id, name, position, team} for each record of the current directory whose
\* trimmed "first last" name is non-empty, and nothing else.
C5_IndexMatchesDirectory ==
    LET named == {id \in DOMAIN players :
                    Trim(OrEmpty(players[id], "first_name") \o <<" ">>
                            \o OrEmpty(players[id], "last_name")) # <<>>}
        items == playerSearchItems
    IN  /\ Len(items) = Cardinality(named)
        /\ \A id \in named :
              \E k \in 1..Len(items) :
                  items[k] =
                      [id |-> id,
                       name |-> Trim(OrEmpty(players[id], "first_name") \o <<" ">>
                                        \o OrEmpty(players[id], "last_name")),
                       position |-> OrEmpty(players[id], "position"),
                       team |-> OrEmpty(players[id], "team")]
        /\ \A k \in 1..Len(items) : items[k].id \in named
        /\ playerFuse # <<>> => playerFuse[1] = items

C5_Witness ==
    /\ playersLoaded
    /\ \E id \in DOMAIN players : DisplayName(players[id]) = <<>>
    /\ \E id \in DOMAIN players : DisplayName(players[id]) # <<>>
    /\ playerFuse # <<>>

(***************************************************************************)
(* Properties of the operations (SpecOps)                                  *)
(***************************************************************************)
Success == 200..299

Failures(i) == {r \in recv[i] : r[2] \notin Success}

HasFlag(i, names) == call[i].name \in names /\ call[i].flag

\* C6: a composite operation returns only if every remote call it depends on
\* was answered with success, the directory load included; as soon as one
\* response is a failure the invocation has failed with the error of that
\* response and carries no value.
C6_AllOrNothing ==
    \A i \in Inv :
        LET c == call[i]
            needs ==
                CASE c.name = "getMatchups" -> {"matchups", "league_users", "rosters"}
                  [] c.name = "getDraftPicks" -> {"picks", "draft", "league_users", "rosters"}
                  [] c.name = "getPlayoffResults" ->
                        {"winners_bracket", "losers_bracket", "league_users", "rosters"}
                  [] c.name = "getLeagueRosters" -> {"rosters"}
                  [] c.name = "getTrendingPlayers" -> {"trending"}
                  [] c.name = "getPlayerRanks" -> {"ranks"}
                  [] OTHER -> {}
            loads == c.name \in {"getMatchups", "getLeagueRosters", "getTrendingPlayers",
                                 "getPlayerRanks"}
        IN  (HasFlag(i, FlagOps) \/ c.name = "getPlayoffResults")
            => /\ result[i].status = "returned"
                  => /\ \A ep \in needs : sent[i][ep] = 1
                     /\ \A ep \in Endpoints :
                           sent[i][ep] > 0 => \E st \in Success : <<ep, st>> \in recv[i]
                     /\ Failures(i) = {}
                     /\ loads => playersLoaded /\ playersCache # <<>>
                     /\ c.name = "getPlayerRanks" => nflState # <<>>
               /\ \A r \in Failures(i) :
                     /\ result[i].status = "failed"
                     /\ result[i].value = <<>>
                     /\ result[i].error[1].kind = "http"
                     /\ result[i].error[1].status = r[2]

\* A formatted getMatchups whose own fetch succeeded and whose directory load failed.
C6_Witness ==
    \E i \in Inv :
        /\ HasFlag(i, {"getMatchups"})
        /\ \E st \in Success : <<"matchups", st>> \in recv[i]
        /\ \E r \in Failures(i) : r[1] = "players"
        /\ result[i].status = "failed"

\* C7: a response whose status is outside the success range makes the call
\* fail with an error that carries that status; no body of that endpoint is
\* kept and the request was issued exactly once.
C7_HttpErrorNoRetry ==
    \A i \in Inv :
        \A r \in recv[i] :
            r[2] \notin 200..299
                => /\ result[i].status = "failed"
                   /\ result[i].value = <<>>
                   /\ result[i].error[1].kind = "http"
                   /\ result[i].error[1].status = r[2]
                   /\ r[1] \notin DOMAIN got[i]
                   /\ sent[i][r[1]] = 1
                   /\ inflight[i] = {}

C7_Witness ==
    \E i \in Inv :
        /\ call[i].name = "getPlayerNewsByName"
        /\ <<"graphql", 500>> \in recv[i]
        /\ result[i].status = "failed"
        /\ result[i].error[1].status = 500

Searched(i) == lookup[i] # <<>>
NoMatch(i) == lookup[i] = << <<>> >>

\* C8 as claimed: when the fuzzy search finds nothing, each of get_player_stats,
\* get_player_projections, get_player_news and find_player_id fails with a
\* player-not-found error that includes the input.
C8_NotFoundThrows ==
    \A i \in Inv :
        (/\ call[i].name \in ByNameOps \cup {"find_player_id"}
         /\ pc[i] = "done"
         /\ NoMatch(i))
        => /\ result[i].status = "failed"
           /\ result[i].error[1].kind = "player_not_found"
           /\ result[i].error[1].input = call[i].input

\* C8 as amended: get_player_stats, get_player_projections and get_player_news
\* fail with a player-not-found error that includes the input; find_player_id
\* does not throw, it returns the text "Player not found: <input>".
C8_NotFoundThrowsOrText ==
    \A i \in Inv :
        (pc[i] = "done" /\ NoMatch(i))
        => /\ call[i].name \in ByNameOps
                => /\ result[i].status = "failed"
                   /\ result[i].value = <<>>
                   /\ result[i].error[1].kind = "player_not_found"
                   /\ result[i].error[1].input = call[i].input
           /\ call[i].name = "find_player_id"
                => /\ result[i].status = "returned"
                   /\ result[i].value[1].kind = "text"
                   /\ result[i].value[1].data = <<"Player not found: ", call[i].input>>

C8_Witness ==
    \E i \in Inv :
        /\ call[i].name \in ByNameOps
        /\ NoMatch(i)
        /\ playerSearchItems # <<>>
        /\ result[i].status = "failed"
        /\ result[i].error[1].kind = "player_not_found"

AllDigits(text) == Len(text) >= 1 /\ \A k \in 1..Len(text) : text[k] \in Digits

\* C9: resolvePlayerInput on a digits-only input settles on the input itself
\* in its first step, without touching the cache or the network, and the
\* invocation never loads or searches the directory for it.
C9_DigitsResolveVerbatim ==
    /\ [](\A i \in Inv :
            (call[i].name \in ByNameOps /\ AllDigits(call[i].input))
                => /\ sent[i]["players"] = 0
                   /\ ~Searched(i)
                   /\ resolved[i] \in {<<>>, <<call[i].input>>}
                   /\ result[i].status = "returned" => resolved[i] = <<call[i].input>>)
    /\ [][\A i \in Inv :
            (/\ AtStage(i, "resolve")
             /\ AllDigits(call[i].input)
             /\ (pc'[i] # pc[i] \/ stage'[i] # stage[i]))
            => /\ resolved'[i] = <<call[i].input>>
               /\ UNCHANGED <<players, playersLoaded, playersCache, playerSearchItems,
                              playerFuse>>
               /\ UNCHANGED <<inflight, sent>>]_vars

\* An id that no directory holds is resolved while nothing has been loaded.
C9_Witness ==
    \E i \in Inv :
        /\ call[i].name \in ByNameOps
        /\ call[i].input = <<"4", "8">>
        /\ resolved[i] = << <<"4", "8">> >>
        /\ result[i].status = "returned"
        /\ ~playersLoaded
        /\ playersCache = <<>>

\* The enriched records an operation returned: <<player id, record>> pairs.
EnrichedPairs(i) ==
    LET data == result[i].value[1].data
    IN  IF call[i].name = "getLeagueRosters"
        THEN UNION {
               UNION { {<<data[k][f][n].player_id, data[k][f][n]>> : n \in 1..Len(data[k][f])}
                       : f \in DOMAIN data[k] \cap
                               {"players_enriched", "starters_enriched", "reserve_enriched"} }
               : k \in 1..Len(data) }
        ELSE { <<data[k].player_id, data[k].player_info>> :
                 k \in {n \in 1..Len(data) : "player_id" \in DOMAIN data[n]} }

IsEnriched(i) ==
    /\ HasFlag(i, {"getLeagueRosters", "getTrendingPlayers"})
    /\ result[i].status = "returned"

\* The fields C10 states for the record of a player that is in the directory,
\* with "absent" standing for the default of a missing status.
EnrichedAsStated(pair, absent) ==
    LET player == players[pair[1]]
        rec == pair[2]
    IN  /\ rec.name = Trim((IF "first_name" \in DOMAIN player THEN player.first_name ELSE <<>>)
                            \o <<" ">>
                            \o (IF "last_name" \in DOMAIN player THEN player.last_name ELSE <<>>))
        /\ "position" \in DOMAIN player => rec.position = player.position
        /\ "team" \in DOMAIN player => rec.team = player.team
        /\ rec.status = IF "status" \in DOMAIN player THEN player.status ELSE absent
        /\ rec.fantasy_positions =
               IF "fantasy_positions" \in DOMAIN player THEN player.fantasy_positions
               ELSE <<>>

\* C10 as claimed: for a player id in the directory the enriched record has
\* the trimmed name, position and team of the directory record, status
\* "Unknown" when the record has none and fantasy_positions [] when absent.
C10_EnrichedStatusUnknown ==
    \A i \in Inv :
        IsEnriched(i)
            => \A pair \in EnrichedPairs(i) :
                  pair[1] \in DOMAIN players => EnrichedAsStated(pair, Unknown)

\* C10 as amended: the same, except that a record without a status is
\* enriched with the empty string as status.
C10_EnrichedStatusEmpty ==
    \A i \in Inv :
        IsEnriched(i)
            => \A pair \in EnrichedPairs(i) :
                  pair[1] \in DOMAIN players => EnrichedAsStated(pair, <<>>)

C10_Witness ==
    \E i \in Inv :
        /\ IsEnriched(i)
        /\ call[i].name = "getLeagueRosters"
        /\ \E pair \in EnrichedPairs(i) :
              /\ pair[1] \in DOMAIN players
              /\ "status" \notin DOMAIN players[pair[1]]
              /\ pair[2].status = <<>>

(***************************************************************************)
(* Enrichment of ids the directory does not know (SpecOps)                 *)
(***************************************************************************)
\* The id lists of a roster and the field each enriched list is stored in.
EnrichedFields ==
    { <<"players", "players_enriched">>, <<"starters", "starters_enriched">>,
      <<"reserve", "reserve_enriched">> }

IsUnknownRecord(rec) ==
    /\ rec.name = <<"U","n","k","n","o","w","n"," ","P","l","a","y","e","r">>
    /\ rec.status = <<"U","n","k","n","o","w","n">>
    /\ rec.fantasy_positions = <<>>

\* C11: an operation that enriches fails only on a failed response; each
\* non-empty id list of a returned roster has an enriched list with one record
\* per id, in the order of the ids, and the record of an id that is not in
\* the directory has name "Unknown Player", status "Unknown" and no fantasy
\* positions (so has the player_info of a trending item with such an id).
C11_AbsentIdsEnrichedAsUnknown ==
    \A i \in Inv :
        /\ HasFlag(i, {"getLeagueRosters", "getTrendingPlayers"}) /\ result[i].status = "failed"
              => Failures(i) # {}
        /\ IsEnriched(i) /\ call[i].name = "getLeagueRosters"
              => LET data == result[i].value[1].data
                     body == got[i]["rosters"]
                 IN  /\ Len(data) = Len(body)
                     /\ \A k \in 1..Len(body), f \in EnrichedFields :
                            f[1] \in DOMAIN body[k] /\ Len(body[k][f[1]]) > 0
                                => /\ f[2] \in DOMAIN data[k]
                                   /\ Len(data[k][f[2]]) = Len(body[k][f[1]])
                                   /\ \A n \in 1..Len(body[k][f[1]]) :
                                          /\ data[k][f[2]][n].player_id = body[k][f[1]][n]
                                          /\ body[k][f[1]][n] \notin DOMAIN players
                                                => IsUnknownRecord(data[k][f[2]][n])
        /\ IsEnriched(i) /\ call[i].name = "getTrendingPlayers"
              => LET data == result[i].value[1].data
                     body == got[i]["trending"]
                 IN  /\ Len(data) = Len(body)
                     /\ \A k \in 1..Len(body) :
                            "player_id" \in DOMAIN body[k] /\ body[k].player_id \notin DOMAIN players
                                => IsUnknownRecord(data[k].player_info)

\* A returned roster whose players list has a known id followed by an unknown one.
C11_Witness ==
    \E i \in Inv :
        /\ IsEnriched(i)
        /\ call[i].name = "getLeagueRosters"
        /\ got[i]["rosters"][1].players = <<Id1, <<"9">> >>
        /\ Id1 \in DOMAIN players
        /\ Len(result[i].value[1].data[1].players_enriched) = 2
        /\ IsUnknownRecord(result[i].value[1].data[1].players_enriched[2])

(***************************************************************************)
(* Playoff results (SpecFormat)                                            *)
(***************************************************************************)
Undecided(bracket) == \E k \in 1..Len(bracket) : "w" \notin DOMAIN bracket[k]

\* C12: generateFinalStandings returns null when a match of either bracket
\* has no winner, and the text of getPlayoffResults has a FINAL STANDINGS
\* section only when every match of both brackets has one.
C12_NoStandingsWhileUndecided ==
    \A n \in 1..Len(fmtOut) :
        /\ /\ fmtCall.name = "generateFinalStandings"
           /\ Undecided(fmtCall.winnersBracket) \/ Undecided(fmtCall.losersBracket)
           => fmtOut[n] = Returned(<<>>)
        /\ /\ fmtCall.name = "getPlayoffResults"
           /\ fmtOut[n].status = "returned"
           /\ \E k \in 1..Len(fmtOut[n].value[1].data) :
                 fmtOut[n].value[1].data[k] = "(medal) FINAL STANDINGS"
           => ~Undecided(fmtCall.winnersBracket) /\ ~Undecided(fmtCall.losersBracket)

\* Final standings were asked for with the losers bracket still undecided.
C12_Witness ==
    /\ fmtCall.name = "generateFinalStandings"
    /\ fmtCall.winnersBracket = <<Semi1, Semi2, Final>>
    /\ fmtCall.losersBracket = <<Fifth, ThirdPending>>
    /\ Len(fmtOut) >= 1
    /\ fmtOut[1] = Returned(<<>>)

\* The winners-bracket match the standings are headed by: the first listed
\* among those with the highest round number.
HighestRoundMatch(bracket) ==
    bracket[CHOOSE k \in 1..Len(bracket) :
               /\ \A j \in 1..Len(bracket) : bracket[j].r <= bracket[k].r
               /\ \A j \in 1..(k - 1) : bracket[j].r < bracket[k].r]

NameOfRoster(id) ==
    LET rosterToUser == RosterToUser(fmtCall.users, fmtCall.rosters)
    IN  IF id \in DOMAIN rosterToUser THEN rosterToUser[id]
        ELSE <<"Roster ">> \o NumberToString(id)

StandingsAsked ==
    /\ fmtCall.name = "generateFinalStandings"
    /\ ~Undecided(fmtCall.winnersBracket)
    /\ ~Undecided(fmtCall.losersBracket)

\* C13: with every match decided and a non-empty winners bracket, the
\* standings exist and their first two lines are 1st place, the winner, and
\* 2nd place, the loser, of the winners-bracket match with the highest round
\* number (the first listed of them when several share that round).
C13_TopTwoFromHighestRound ==
    \A n \in 1..Len(fmtOut) :
        StandingsAsked /\ fmtCall.winnersBracket # <<>>
            => LET final == HighestRoundMatch(fmtCall.winnersBracket)
                   out == fmtOut[n]
               IN  /\ out.status = "returned"
                   /\ out.value[1] # <<>>
                   /\ Len(out.value[1][1]) >= 2
                   /\ out.value[1][1][1] = <<"(gold) 1st Place: ">> \o NameOfRoster(final.w)
                   /\ "l" \in DOMAIN final
                         => out.value[1][1][2]
                               = <<"(silver) 2nd Place: ">> \o NameOfRoster(final.l)

\* The final is listed first and the semi-finals after it.
C13_Witness ==
    /\ StandingsAsked
    /\ fmtCall.winnersBracket = <<Final, Semi2, Semi1>>
    /\ Len(fmtOut) >= 1
    /\ fmtOut[1].value[1] # <<>>
    /\ fmtOut[1].value[1][1][2] = <<"(silver) 2nd Place: ", "A", "n", "n">>

\* The place a line of the standings is about.
PlaceOfLine(line) ==
    CASE line[1] = "(gold) 1st Place: " -> 1
      [] line[1] = "(silver) 2nd Place: " -> 2
      [] line[1] = "(bronze) 3rd Place: " -> 3
      [] OTHER -> IdRank(<<line[2]>>)

\* The name a line of the standings gives.
NameOfLine(line) ==
    IF PlaceOfLine(line) <= 3 THEN Tail(line) ELSE SubSeq(line, 4, Len(line))

\* The standings hold `name` at `place`.
Placed(lines, place, name) ==
    \E k \in 1..Len(lines) : PlaceOfLine(lines[k]) = place /\ NameOfLine(lines[k]) = name

Ascending(lines) ==
    \A k \in 1..(Len(lines) - 1) : PlaceOfLine(lines[k]) < PlaceOfLine(lines[k + 1])

\* The losers-bracket matches that decide a place pair.
Placing(bracket) ==
    {k \in 1..Len(bracket) : "p" \in DOMAIN bracket[k] /\ bracket[k].p \in {3, 5, 7}}

\* C14 as claimed: with every match decided, every losers-bracket match
\* whose p is 3, 5 or 7 has its winner at place p and its loser at place
\* p + 1 of the standings, which are in ascending place order and have no
\* place that no match produced.
C14_EachPlacingMatchContributes ==
    \A n \in 1..Len(fmtOut) :
        StandingsAsked
            => LET losers == fmtCall.losersBracket
                   lines == IF fmtOut[n].value[1] = <<>> THEN <<>> ELSE fmtOut[n].value[1][1]
               IN  /\ \A k \in Placing(losers) :
                          /\ Placed(lines, losers[k].p, NameOfRoster(losers[k].w))
                          /\ "l" \in DOMAIN losers[k]
                                => Placed(lines, losers[k].p + 1, NameOfRoster(losers[k].l))
                   /\ Ascending(lines)
                   /\ \A j \in 1..Len(lines) :
                          \/ PlaceOfLine(lines[j]) \in {1, 2} /\ fmtCall.winnersBracket # <<>>
                          \/ \E k \in Placing(losers) :
                                PlaceOfLine(lines[j]) \in {losers[k].p, losers[k].p + 1}

\* C14 as amended: the same for the matches that record a loser as well as
\* a winner and are the last listed with their p; a match with p in
\* {3, 5, 7} and no recorded loser contributes nothing.
C14_LastCompletePlacingMatchContributes ==
    \A n \in 1..Len(fmtOut) :
        StandingsAsked
            => LET losers == fmtCall.losersBracket
                   complete == {k \in Placing(losers) : "l" \in DOMAIN losers[k]}
                   lines == IF fmtOut[n].value[1] = <<>> THEN <<>> ELSE fmtOut[n].value[1][1]
               IN  /\ \A k \in complete :
                          (\A j \in complete : losers[j].p = losers[k].p => j <= k)
                              => /\ Placed(lines, losers[k].p, NameOfRoster(losers[k].w))
                                 /\ Placed(lines, losers[k].p + 1, NameOfRoster(losers[k].l))
                   /\ Ascending(lines)
                   /\ \A j \in 1..Len(lines) :
                          \/ PlaceOfLine(lines[j]) \in {1, 2} /\ fmtCall.winnersBracket # <<>>
                          \/ \E k \in complete :
                                PlaceOfLine(lines[j]) \in {losers[k].p, losers[k].p + 1}

\* Standings with the places 7, 5 and 3 decided in that order of the list.
C14_Witness ==
    /\ StandingsAsked
    /\ fmtCall.winnersBracket = <<Semi1, Semi2, Final>>
    /\ fmtCall.losersBracket = <<Seventh, Fifth, Third>>
    /\ Len(fmtOut) >= 1
    /\ Len(fmtOut[1].value[1][1]) = 8
    /\ Placed(fmtOut[1].value[1][1], 3, <<"b", "o">>)
    /\ Placed(fmtOut[1].value[1][1], 8, <<"Roster ", "7">>)

(***************************************************************************)
(* Bracket layout (SpecFormat)                                             *)
(***************************************************************************)
\* The number a string of digits denotes.
RECURSIVE ParseDigits(_)
ParseDigits(digits) ==
    IF digits = <<>> THEN 0
    ELSE 10 * ParseDigits(SubSeq(digits, 1, Len(digits) - 1)) + IdRank(<<digits[Len(digits)]>>)

DigitsFrom(line, first) ==
    LET last == CHOOSE k \in (first - 1)..Len(line) :
                    /\ \A j \in first..k : line[j] \in Digits
                    /\ k = Len(line) \/ line[k + 1] \notin Digits
    IN  ParseDigits(SubSeq(line, first, last))

IsRoundHeading(line) == Len(line) >= 2 /\ line[1] = "\n" /\ line[2] = "ROUND "
IsMatchLine(line) == Len(line) >= 1 /\ line[1] = "  Match "

\* The <<round, match id>> pairs of the match lines, in the order of the lines.
RECURSIVE MatchesListed(_, _)
MatchesListed(lines, round) ==
    IF lines = <<>> THEN <<>>
    ELSE IF IsRoundHeading(Head(lines))
         THEN MatchesListed(Tail(lines), DigitsFrom(Head(lines), 3))
    ELSE IF IsMatchLine(Head(lines))
         THEN << <<round, DigitsFrom(Head(lines), 2)>> >> \o MatchesListed(Tail(lines), round)
    ELSE MatchesListed(Tail(lines), round)

RoundsListed(lines) ==
    LET headings == SelectSeq(lines, IsRoundHeading)
    IN  [k \in 1..Len(headings) |-> DigitsFrom(headings[k], 3)]

\* C15: for a non-empty bracket formatBracket lists the rounds in ascending
\* numeric order, the matches of a round in ascending match id under the
\* heading of their round, and every match exactly once.
C15_RoundsAndMatchesAscending ==
    \A n \in 1..Len(fmtOut) :
        fmtCall.name = "formatBracket" /\ fmtCall.bracket # <<>>
            => LET bracket == fmtCall.bracket
                   lines == fmtOut[n].value[1]
                   rounds == RoundsListed(lines)
                   listed == MatchesListed(lines, 0)
               IN  /\ \A k \in 1..(Len(rounds) - 1) : rounds[k] < rounds[k + 1]
                   /\ \A k \in 1..(Len(listed) - 1) :
                          listed[k][1] = listed[k + 1][1] => listed[k][2] <= listed[k + 1][2]
                   /\ Len(listed) = Len(bracket)
                   /\ \A k \in 1..Len(bracket) :
                          Cardinality({j \in 1..Len(listed) :
                                          listed[j] = <<bracket[k].r, bracket[k].m>>})
                            = Cardinality({j \in 1..Len(bracket) :
                                              bracket[j].r = bracket[k].r
                                              /\ bracket[j].m = bracket[k].m})

\* What the code does instead: the same, with the rounds in the order of
\* Array.prototype.sort() without a comparator, the order of their decimal
\* strings.
C15_RoundsInStringOrder ==
    \A n \in 1..Len(fmtOut) :
        fmtCall.name = "formatBracket" /\ fmtCall.bracket # <<>>
            => LET bracket == fmtCall.bracket
                   lines == fmtOut[n].value[1]
                   rounds == RoundsListed(lines)
                   listed == MatchesListed(lines, 0)
               IN  /\ \A k \in 1..(Len(rounds) - 1) :
                          StringLess(NumberToString(rounds[k]), NumberToString(rounds[k + 1]))
                   /\ \A k \in 1..(Len(listed) - 1) :
                          listed[k][1] = listed[k + 1][1] => listed[k][2] <= listed[k + 1][2]
                   /\ Len(listed) = Len(bracket)
                   /\ \A k \in 1..Len(bracket) :
                          \E j \in 1..Len(listed) : listed[j] = <<bracket[k].r, bracket[k].m>>

(***************************************************************************)
(* Matchup table (SpecFormat)                                              *)
(***************************************************************************)
\* The lines of a text: its pieces between line breaks.
Split(text) ==
    LET n == Len(text)
        breaks == SelectSeq([k \in 1..n |-> k], LAMBDA k : text[k] = "\n")
    IN  [i \in 1..(Len(breaks) + 1) |->
            SubSeq(text, IF i = 1 THEN 1 ELSE breaks[i - 1] + 1,
                         IF i = Len(breaks) + 1 THEN n ELSE breaks[i] - 1)]

MatchupsFormatted == fmtCall.name = "formatMatchupsTable"

IsTeamLine(line) == \E k \in 1..Len(line) : line[k] = ": "
ColonOf(line) == CHOOSE k \in 1..Len(line) : line[k] = ": "
TeamOfLine(line) == SubSeq(line, 1, ColonOf(line) - 1)
ScoreOfLine(line) == DigitsFrom(line, ColonOf(line) + 1)
Marked(line) == line[Len(line)] = " (trophy)"

\* The two team lines under the heading of pairing `matchupId`.
PairingListed(lines, matchupId) ==
    LET heading == CHOOSE h \in 1..Len(lines) :
                       lines[h] = <<"MATCHUP ">> \o NumberToString(matchupId)
    IN  SelectSeq(SubSeq(lines, heading + 1, Len(lines)), IsTeamLine)

NameOfTeam(rosterId) ==
    LET rosterToUser == RosterToUser(fmtCall.users, fmtCall.rosters)
    IN  IF rosterId \in DOMAIN rosterToUser THEN rosterToUser[rosterId]
        ELSE <<"U", "n", "k", "n", "o", "w", "n">>

\* C17: in a returned table, under the heading of every matchup_id that
\* exactly two teams share, the team with more points is listed first, the
\* marker is on the team with strictly more points and on no other, and on
\* neither team when the scores are equal.
C17_HigherScoreFirstAndMarked ==
    \A n \in 1..Len(fmtOut) :
        MatchupsFormatted /\ fmtOut[n].status = "returned" /\ fmtCall.matchups # <<>>
            => LET matchups == fmtCall.matchups
                   lines == Split(fmtOut[n].value[1].data)
               IN  \A a, b \in 1..Len(matchups) :
                      /\ a # b
                      /\ matchups[a].matchup_id = matchups[b].matchup_id
                      /\ \A c \in 1..Len(matchups) :
                             matchups[c].matchup_id = matchups[a].matchup_id => c \in {a, b}
                      /\ matchups[a].points >= matchups[b].points
                      => LET listed == PairingListed(lines, matchups[a].matchup_id)
                         IN  /\ ScoreOfLine(listed[1]) = matchups[a].points
                             /\ ScoreOfLine(listed[2]) = matchups[b].points
                             /\ ~Marked(listed[2])
                             /\ Marked(listed[1]) <=> matchups[a].points > matchups[b].points
                             /\ matchups[a].points > matchups[b].points
                                   => /\ TeamOfLine(listed[1]) = NameOfTeam(matchups[a].roster_id)
                                      /\ TeamOfLine(listed[2]) = NameOfTeam(matchups[b].roster_id)

\* A table with a pairing whose lower-scoring team comes first in the
\* payload and a pairing with equal scores.
C17_Witness ==
    /\ MatchupsFormatted
    /\ fmtCall.matchups = <<TeamA, TeamC, TeamB, TeamD>>
    /\ Len(fmtOut) >= 1
    /\ fmtOut[1].status = "returned"
    /\ LET lines == Split(fmtOut[1].value[1].data)
       IN  /\ Marked(PairingListed(lines, 1)[1])
           /\ TeamOfLine(PairingListed(lines, 1)[1]) = <<"b", "o">>
           /\ ~Marked(PairingListed(lines, 2)[1])

(***************************************************************************)
(* Rank table (SpecFormat)                                                 *)
(***************************************************************************)
RanksFormatted == fmtCall.name = "formatPlayerRanksTable" /\ fmtCall.data # <<>>

\* The rows of a returned table: its lines after the header and the rule.
RowsOf(out) == Tail(Tail(Split(out.value[1].data)))

FirstColumn(row) == CHOOSE k \in 1..Len(row) : row[k] # " " /\ \A j \in 1..(k - 1) : row[j] = " "
RankOfRow(row) == DigitsFrom(row, FirstColumn(row))
PosRankOfRow(row) ==
    LET bar == CHOOSE k \in 1..Len(row) : row[k] = "|" /\ \A j \in 1..(k - 1) : row[j] # "|"
        rest == SubSeq(row, bar + 1, Len(row))
    IN  DigitsFrom(rest, FirstColumn(rest))

HasBoth(record) ==
    "player_id" \in DOMAIN record /\ "stats" \in DOMAIN record
        /\ "rank_ppr" \in DOMAIN record.stats

\* C18 as claimed: the table is returned, it has one row for every record
\* with both a player_id and a stats.rank_ppr, up to 200 rows, and the ranks
\* of its rows are strictly ascending.
C18_RankedStrictlyAscending ==
    \A n \in 1..Len(fmtOut) :
        RanksFormatted
            => /\ fmtOut[n].status = "returned"
               /\ LET rows == RowsOf(fmtOut[n])
                      both == {i \in 1..Len(fmtCall.data) : HasBoth(fmtCall.data[i])}
                  IN  /\ Len(rows) = IF Cardinality(both) < 200 THEN Cardinality(both) ELSE 200
                      /\ \A k \in 1..(Len(rows) - 1) :
                             RankOfRow(rows[k]) < RankOfRow(rows[k + 1])

\* C18 as amended: the records listed are those with a non-empty player_id
\* and a non-zero stats.rank_ppr; row k is the record with k - 1 such records
\* before it in the order of rank_ppr, equal ranks in payload order; only the
\* first 200 are rows; the formatter throws exactly when one of those has no
\* stats.pos_rank_ppr.
C18_RankedAscendingStable ==
    \A n \in 1..Len(fmtOut) :
        RanksFormatted
            => LET data == fmtCall.data
                   Rank(i) == data[i].stats.rank_ppr
                   listed == {i \in 1..Len(data) :
                                 /\ HasBoth(data[i])
                                 /\ data[i].player_id # <<>>
                                 /\ Rank(i) # 0}
                   place == [i \in listed |->
                               Cardinality({j \in listed :
                                               Rank(j) < Rank(i) \/ (Rank(j) = Rank(i) /\ j < i)})
                                 + 1]
                   shown == {i \in listed : place[i] <= 200}
               IN  IF \E i \in shown : "pos_rank_ppr" \notin DOMAIN data[i].stats
                   THEN fmtOut[n] = Thrown(TypeError)
                   ELSE /\ fmtOut[n].status = "returned"
                        /\ LET rows == RowsOf(fmtOut[n])
                           IN  /\ Len(rows) = Cardinality(shown)
                               /\ \A i \in shown :
                                      /\ RankOfRow(rows[place[i]]) = Rank(i)
                                      /\ PosRankOfRow(rows[place[i]]) = data[i].stats.pos_rank_ppr
                               /\ \A k \in 1..(Len(rows) - 1) :
                                      RankOfRow(rows[k]) <= RankOfRow(rows[k + 1])

\* A table of 200 rows was cut from a payload with more ranked players.
C18_Witness ==
    /\ RanksFormatted
    /\ Len(fmtCall.data) > 200
    /\ Len(fmtOut) >= 1
    /\ fmtOut[1].status = "returned"
    /\ Len(RowsOf(fmtOut[1])) = 200
    /\ RankOfRow(RowsOf(fmtOut[1])[200]) = 203

(***************************************************************************)
(* Missing statistics (SpecFormat)                                         *)
(***************************************************************************)
\* The cells of a table row: the texts between its column separators,
\* without the padding.
Cells(row) ==
    LET n == Len(row)
        bars == SelectSeq([k \in 1..n |-> k], LAMBDA k : row[k] \in {"|", " | "})
    IN  [i \in 1..(Len(bars) + 1) |->
            Trim(SubSeq(row, IF i = 1 THEN 1 ELSE bars[i - 1] + 1,
                             IF i = Len(bars) + 1 THEN n ELSE bars[i] - 1))]

Zero == <<"0">>
ZeroFixed == <<"0", ".", "0">>

\* The statistics behind the cells of a projections row, after the week,
\* the date and the opponent, for a table whose first week has `stats`.
ShownStats(stats) ==
    (IF "pass_yd" \in DOMAIN stats THEN <<"pass_yd", "pass_td">> ELSE <<>>)
        \o (IF "rush_yd" \in DOMAIN stats THEN <<"rush_yd", "rush_td">> ELSE <<>>)
        \o (IF "rec" \in DOMAIN stats THEN <<"rec", "rec_yd", "rec_td">> ELSE <<>>)
        \o <<"pts_ppr">>

\* Every cell of a returned projections table whose statistic the week
\* does not carry reads 0 or 0.0.
ProjectionsRenderZero(n) ==
    fmtCall.name = "formatProjectionsTable" /\ fmtCall.projections # <<>>
        => LET projections == fmtCall.projections[1]
               weeks == WeeksInOrder({w \in DOMAIN projections : projections[w] # <<>>})
               rows == RowsOf(fmtOut[n])
           IN  weeks # <<>>
                  => /\ Len(rows) = Len(weeks)
                     /\ LET Stats(k) == IF "stats" \in DOMAIN projections[weeks[k]][1]
                                        THEN projections[weeks[k]][1].stats ELSE <<>>
                            shown == ShownStats(Stats(1))
                        IN  \A k \in 1..Len(weeks) :
                               /\ Len(Cells(rows[k])) = 3 + Len(shown)
                               /\ \A c \in 1..Len(shown) :
                                      shown[c] \notin DOMAIN Stats(k)
                                          => Cells(rows[k])[3 + c] \in {Zero, ZeroFixed}

\* Every row of a returned rank table whose record carries no PPR points
\* or no positional rank reads 0.0 or 0 there.
RanksRenderZero(n) ==
    RanksFormatted
        => LET data == fmtCall.data
               rows == RowsOf(fmtOut[n])
               Rank(i) == data[i].stats.rank_ppr
               listed == {i \in 1..Len(data) :
                             HasBoth(data[i]) /\ data[i].player_id # <<>> /\ Rank(i) # 0}
               place == [i \in listed |->
                           Cardinality({j \in listed :
                                           Rank(j) < Rank(i) \/ (Rank(j) = Rank(i) /\ j < i)})
                             + 1]
           IN  \A i \in listed :
                  place[i] <= Len(rows)
                      => /\ "pts_ppr" \notin DOMAIN data[i].stats
                                => Cells(rows[place[i]])[6] = ZeroFixed
                         /\ "pos_rank_ppr" \notin DOMAIN data[i].stats
                                => Cells(rows[place[i]])[2] = Zero

\* In a returned matchups table the score of a team without points reads
\* 0.00 and the line of a starter without points reads 0.0 pts.
MatchupsRenderZero(n) ==
    MatchupsFormatted /\ fmtCall.matchups # <<>>
        => LET matchups == fmtCall.matchups
               lines == Split(fmtOut[n].value[1].data)
               Points(a) == IF "points" \in DOMAIN matchups[a] THEN matchups[a].points ELSE 0
               Starters(a) == IF "starters" \in DOMAIN matchups[a]
                              THEN matchups[a].starters ELSE <<>>
               StartersLines(a) == IF Len(Starters(a)) = 0 THEN 1 ELSE Len(Starters(a))
               HasStarterPoints(a, i) ==
                   /\ "starters_points" \in DOMAIN matchups[a]
                   /\ i <= Len(matchups[a].starters_points)
                   /\ matchups[a].starters_points[i] # <<>>
               TeamRendered(a, at) ==
                   /\ "points" \notin DOMAIN matchups[a] => ScoreOfLine(lines[at]) = 0
                   /\ \A i \in 1..Len(Starters(a)) :
                          ~HasStarterPoints(a, i)
                              => LET line == lines[at + i]
                                 IN  SubSeq(line, Len(line) - 4, Len(line))
                                         = <<" ", "0", ".", "0", " pts">>
           IN  \A a, b \in 1..Len(matchups) :
                  /\ a # b
                  /\ Opt(matchups[a], "matchup_id") # <<>>
                  /\ Opt(matchups[a], "matchup_id") = Opt(matchups[b], "matchup_id")
                  /\ \A e \in 1..Len(matchups) :
                         Opt(matchups[e], "matchup_id") = Opt(matchups[a], "matchup_id")
                             => e \in {a, b}
                  /\ Points(a) > Points(b) \/ (Points(a) = Points(b) /\ a < b)
                  => LET heading == CHOOSE h \in 1..Len(lines) :
                                        lines[h] = <<"MATCHUP ">>
                                                     \o NumberToString(matchups[a].matchup_id)
                     IN  /\ TeamRendered(a, heading + 2)
                         /\ TeamRendered(b, heading + 2 + StartersLines(a) + 2)

StatsFormatted ==
    fmtCall.name \in {"formatMatchupsTable", "formatPlayerRanksTable", "formatProjectionsTable"}

\* C19: formatMatchupsTable, formatPlayerRanksTable and
\* formatProjectionsTable return a table for every payload, and in it a
\* missing team score, starter score, positional rank, PPR points or weekly
\* statistic reads 0 or 0.0.
C19_MissingStatsRenderZero ==
    \A n \in 1..Len(fmtOut) :
        StatsFormatted
            => /\ fmtOut[n].status = "returned"
               /\ ProjectionsRenderZero(n)
               /\ RanksRenderZero(n)
               /\ MatchupsRenderZero(n)

\* What holds of the same formatters: the table that is returned reads 0 or
\* 0.0 for every statistic that is missing.
C19_ReturnedTablesRenderZero ==
    \A n \in 1..Len(fmtOut) :
        StatsFormatted /\ fmtOut[n].status = "returned"
            => /\ ProjectionsRenderZero(n)
               /\ RanksRenderZero(n)
               /\ MatchupsRenderZero(n)

\* Tables with defaults were returned: a week without statistics, a ranked
\* player without PPR points, a starter without points.
C19_DefaultsShown ==
    /\ Len(fmtOut) >= 1
    /\ fmtOut[1].status = "returned"
    /\ \/ /\ fmtCall.name = "formatProjectionsTable"
          /\ fmtCall.projections # <<>>
          /\ 10 \in DOMAIN fmtCall.projections[1]
          /\ Cells(RowsOf(fmtOut[1])[3]) [4] = Zero
       \/ /\ fmtCall.name = "formatPlayerRanksTable"
          /\ fmtCall.data = RanksMixed
          /\ Cells(RowsOf(fmtOut[1])[1])[6] = ZeroFixed
       \/ /\ fmtCall.name = "formatMatchupsTable"
          /\ fmtCall.matchups = <<TeamA, TeamB>>

(***************************************************************************)
(* Missing names (SpecFormat)                                              *)
(***************************************************************************)
\* A record with neither a first nor a last name.
Nameless(record) == OrEmpty(record, "first_name") = <<>> /\ OrEmpty(record, "last_name") = <<>>

\* A roster of the league whose owner is not a user of the league.
Unmapped(rosterId) ==
    \E k \in 1..Len(fmtCall.rosters) :
        /\ fmtCall.rosters[k].roster_id = rosterId
        /\ \/ "owner_id" \notin DOMAIN fmtCall.rosters[k]
           \/ \A u \in 1..Len(fmtCall.users) :
                  fmtCall.users[u].user_id # fmtCall.rosters[k].owner_id

\* A starter that is a player: neither the empty slot nor a defence.
IsPlayerStarter(playerId) ==
    /\ playerId # <<"0">>
    /\ ~(Len(playerId) \in 1..3 /\ \A k \in 1..Len(playerId) : playerId[k] \in UpperCase)

\* The pairings of a matchups payload, higher score first, and the lines of
\* their teams in the table.
PairsOf(matchups) ==
    {pair \in (1..Len(matchups)) \X (1..Len(matchups)) :
        LET a == pair[1]
            b == pair[2]
        IN  /\ a # b
            /\ matchups[a].matchup_id = matchups[b].matchup_id
            /\ \A e \in 1..Len(matchups) :
                   matchups[e].matchup_id = matchups[a].matchup_id => e \in {a, b}
            /\ \/ matchups[a].points > matchups[b].points
               \/ matchups[a].points = matchups[b].points /\ a < b}

HeadingOf(lines, matchupId) ==
    CHOOSE h \in 1..Len(lines) : lines[h] = <<"MATCHUP ">> \o NumberToString(matchupId)

TeamLineOf(lines, matchups, pair, k) ==
    LET first == HeadingOf(lines, matchups[pair[1]].matchup_id) + 2
        starters == Len(matchups[pair[1]].starters)
    IN  IF k = 1 THEN first ELSE first + (IF starters = 0 THEN 1 ELSE starters) + 2

\* The names of a returned draft table: of the players with no name and of
\* the rosters with no mapped owner.
DraftNamesRendered(n) ==
    fmtCall.name = "formatDraftPicksTable" /\ fmtCall.picks # <<>>
        => LET rows == RowsOf(fmtOut[n])
           IN  /\ Len(rows) = Len(fmtCall.picks)
               /\ \A k \in 1..Len(rows) :
                      LET pick == fmtCall.picks[k]
                      IN  /\ "metadata" \notin DOMAIN pick \/ Nameless(pick.metadata)
                                => Cells(rows[k])[3] = UnknownPlayer
                          /\ "roster_id" \in DOMAIN pick /\ Unmapped(pick.roster_id)
                                => Cells(rows[k])[6] = Unknown

\* The names of a returned rank table; `known` tells whether a directory
\* record counts as a known player.
RankNamesRendered(n, Known(_)) ==
    RanksFormatted /\ fmtOut[n].status = "returned"
        => LET data == fmtCall.data
               rows == RowsOf(fmtOut[n])
               Rank(i) == data[i].stats.rank_ppr
               listed == {i \in 1..Len(data) :
                             HasBoth(data[i]) /\ data[i].player_id # <<>> /\ Rank(i) # 0}
               place == [i \in listed |->
                           Cardinality({j \in listed :
                                           Rank(j) < Rank(i) \/ (Rank(j) = Rank(i) /\ j < i)})
                             + 1]
           IN  \A i \in listed :
                  /\ place[i] <= Len(rows)
                  /\ data[i].player_id \notin DOMAIN players \/ ~Known(players[data[i].player_id])
                  => Cells(rows[place[i]])[3] = UnknownPlayer

\* The names of a returned matchups table: of the teams and of the starters.
MatchupNamesRendered(n, Known(_)) ==
    MatchupsFormatted /\ fmtCall.matchups # <<>> /\ fmtOut[n].status = "returned"
        => LET matchups == fmtCall.matchups
               lines == Split(fmtOut[n].value[1].data)
           IN  \A pair \in PairsOf(matchups), k \in 1..2 :
                  LET team == matchups[pair[k]]
                      at == TeamLineOf(lines, matchups, pair, k)
                  IN  /\ Unmapped(team.roster_id) => TeamOfLine(lines[at]) = Unknown
                      /\ \A i \in 1..Len(team.starters) :
                             /\ IsPlayerStarter(team.starters[i])
                             /\ \/ team.starters[i] \notin DOMAIN players
                                \/ ~Known(players[team.starters[i]])
                             => SubSeq(lines[at + i], 3, 2 + Len(UnknownPlayer))
                                    = UnknownPlayer

HasName(record) == ~Nameless(record)
InDirectory(record) == TRUE

\* C20: a draft pick with no first and last name, and a starter or ranked
\* player that is not in the directory or is there with neither a first
\* nor a last name, reads "Unknown Player"; a roster with no mapped owner
\* reads "Unknown".
C20_MissingNamesRenderUnknown ==
    \A n \in 1..Len(fmtOut) :
        /\ DraftNamesRendered(n)
        /\ RankNamesRendered(n, HasName)
        /\ MatchupNamesRendered(n, HasName)

\* What holds: the same for the draft picks, the rosters and the starters
\* and ranked players that are not in the directory.
C20_AbsentNamesRenderUnknown ==
    \A n \in 1..Len(fmtOut) :
        /\ DraftNamesRendered(n)
        /\ RankNamesRendered(n, InDirectory)
        /\ MatchupNamesRendered(n, InDirectory)

\* A draft table was returned with a pick that has no names and a pick of a
\* roster without owner.
C20_UnknownShown ==
    /\ fmtCall.name = "formatDraftPicksTable"
    /\ fmtCall.picks = <<PickBlankNames, PickNoMetadata, PickNoRoster>>
    /\ Len(fmtOut) >= 1
    /\ Cells(RowsOf(fmtOut[1])[2])[3] = UnknownPlayer
    /\ Cells(RowsOf(fmtOut[1])[1])[6] = Unknown

(***************************************************************************)
(* Column widths (SpecFormat)                                              *)
(***************************************************************************)
TableFormatted ==
    \/ fmtCall.name = "formatDraftPicksTable" /\ fmtCall.picks # <<>>
    \/ RanksFormatted
    \/ /\ fmtCall.name = "formatProjectionsTable"
       /\ fmtCall.projections # <<>>
       /\ \E w \in DOMAIN fmtCall.projections[1] : fmtCall.projections[1][w] # <<>>

\* The positions of the column separators of a line.
BarsOf(line) == {k \in 1..Len(line) : line[k] = "|"}

\* The rule under the header is as long as the header and is all dashes.
RuleMatchesHeader(lines) ==
    /\ Len(lines[2]) = Len(lines[1])
    /\ \A k \in 1..Len(lines[2]) : lines[2][k] = "-"

\* C21: in a returned draft, rank or projections table the rule has the
\* length of the header, and every row has its column separators where the
\* header has them and the header's length.
C21_RowsAlignWithHeader ==
    \A n \in 1..Len(fmtOut) :
        TableFormatted /\ fmtOut[n].status = "returned"
            => LET lines == Split(fmtOut[n].value[1].data)
               IN  /\ RuleMatchesHeader(lines)
                   /\ \A k \in 3..Len(lines) :
                          /\ Len(lines[k]) = Len(lines[1])
                          /\ BarsOf(lines[k]) = BarsOf(lines[1])

\* What holds: the rule has the length of the header, and no cell of a row
\* is narrower than its column; a row is longer than the header exactly
\* when one of its values is wider than its column.
C21_RowsAtLeastHeaderWide ==
    \A n \in 1..Len(fmtOut) :
        TableFormatted /\ fmtOut[n].status = "returned"
            => LET lines == Split(fmtOut[n].value[1].data)
                   ColumnEnds(line) ==
                       SelectSeq([k \in 1..(Len(line) + 1) |-> k],
                                 LAMBDA k : k = Len(line) + 1 \/ line[k] = "|")
                   Width(line, c) ==
                       ColumnEnds(line)[c] - (IF c = 1 THEN 0 ELSE ColumnEnds(line)[c - 1])
               IN  /\ RuleMatchesHeader(lines)
                   /\ \A k \in 3..Len(lines) :
                          /\ Len(ColumnEnds(lines[k])) = Len(ColumnEnds(lines[1]))
                          /\ \A c \in 1..Len(ColumnEnds(lines[1])) :
                                 Width(lines[k], c) >= Width(lines[1], c)

\* The table of the pick round 1, pick 1, Bryce Young, QB, CAR of roster 3
\* of "Team A" was returned with its row as long as the header.
C21_BryceYoungAligned ==
    /\ fmtCall.name = "formatDraftPicksTable"
    /\ fmtCall.picks = <<PickYoung>>
    /\ fmtCall.users = DraftUsers /\ fmtCall.rosters = DraftRosters
    /\ Len(fmtOut) >= 1
    /\ LET lines == Split(fmtOut[1].value[1].data)
       IN  /\ Cells(lines[3]) = << <<"1">>, <<"1">>,
                                   <<"B", "r", "y", "c", "e", " ", "Y", "o", "u", "n", "g">>,
                                   <<"Q", "B">>, <<"C", "A", "R">>,
                                   <<"T", "e", "a", "m", " ", "A">> >>
           /\ Len(lines[3]) = Len(lines[1])

(***************************************************************************)
(* NFL state snapshot (SpecState)                                          *)
(***************************************************************************)
\* Invocation i receives a successful response to its state request.
StateFetched(i) == pc[i] = "awaitState" /\ pc'[i] = "run"

\* C22 as claimed: once a snapshot is stored it stays the stored one and no
\* further request to the state endpoint succeeds, also when invocations
\* overlap.
C22_ExactlyOneStateFetch ==
    [][nflState # <<>> => /\ nflState' = nflState
                          /\ \A i \in Inv : ~StateFetched(i)]_vars

\* C22 as amended: once a snapshot is stored no invocation issues a state
\* request, however much time passes; the stored snapshot changes only by
\* the response to a request that was issued while none was stored; and
\* getNflState returns the snapshot stored when it returns.
C22_NoStateRequestOnceStored ==
    [][/\ nflState # <<>> => \A i \in Inv : sent'[i]["state"] <= sent[i]["state"]
       /\ nflState' # nflState
             => \E i \in Inv : StateFetched(i) /\ nflState' = <<got'[i]["state"]>>
       /\ (nflState # <<>> /\ \A i \in Inv : pc[i] # "awaitState") => nflState' = nflState
       /\ \A i \in Inv :
             /\ result[i].status = "none"
             /\ result'[i].status = "returned"
             /\ call[i].name = "getNflState"
             => nflState # <<>> /\ result'[i].value[1] = Json(nflState[1])]_vars

\* A day after the snapshot was stored an invocation has returned it without
\* a request of its own, beside an invocation that fetched it.
C22_Witness ==
    /\ now >= CACHE_DURATION_HOURS * 3600
    /\ nflState # <<>>
    /\ \E i, j \in Inv :
          /\ call[i].name = "getNflState" /\ result[i].status = "returned"
          /\ sent[i]["state"] = 0
          /\ result[i].value[1] = Json(nflState[1])
          /\ call[j].name = "getNflState" /\ result[j].status = "returned"
          /\ sent[j]["state"] = 1

(***************************************************************************)
(* Tool catalog (SpecServer)                                               *)
(***************************************************************************)
\* C23: once init has run, every tool of the catalog is registered.
C23_CatalogRegistered == tools # {} => Catalog \subseteq tools

\* What holds: once init has run, the registered tools are those of the
\* catalog except get_winners_bracket, get_losers_bracket and
\* get_enriched_players, and only a registered tool is ever run.
C23_RegisteredTools ==
    /\ tools \in {{}, Catalog \ {"get_winners_bracket", "get_losers_bracket",
                                 "get_enriched_players"}}
    /\ \A i \in OpsInv :
          pc[i] # "idle"
              => /\ call[i].name \notin {"getWinnersBracket", "getLosersBracket"}
                 /\ \E name \in tools : ToolOperation(name) = call[i].name

\* After init a registered tool has been called and has returned.
C23_ToolCalled ==
    /\ tools # {}
    /\ \E i \in OpsInv : call[i].name = "getPlayoffResults" /\ result[i].status = "returned"

(***************************************************************************)
(* Team names of a bracket (SpecFormat)                                    *)
(***************************************************************************)
\* The two team names of a match line, between `: `, ` vs ` and ` - `.
TokenAt(line, token) == CHOOSE k \in 1..Len(line) : line[k] = token
FirstTeamOf(line) == SubSeq(line, TokenAt(line, ": ") + 1, TokenAt(line, " vs ") - 1)
SecondTeamOf(line) == SubSeq(line, TokenAt(line, " vs ") + 1, TokenAt(line, " - ") - 1)

\* The name the precedence gives a side of a match: `id` and `from` are the
\* names of its direct field and of its forward reference.
NameByPrecedence(match, id, from) ==
    LET rosterToUser == RosterToUser(fmtCall.users, fmtCall.rosters)
    IN  IF id \in DOMAIN match
        THEN IF match[id] \in DOMAIN rosterToUser THEN rosterToUser[match[id]]
             ELSE <<"Roster ">> \o NumberToString(match[id])
        ELSE IF from \in DOMAIN match /\ "w" \in DOMAIN match[from]
             THEN <<"Winner of Match ">> \o NumberToString(match[from].w)
        ELSE IF from \in DOMAIN match /\ "l" \in DOMAIN match[from]
             THEN <<"Loser of Match ">> \o NumberToString(match[from].l)
        ELSE <<"TBD">>

\* C24: the line of every match of a bracket names each side by the
\* precedence direct roster id, forward reference, "TBD"; the name of a
\* forward reference is made of the referenced match id alone.
C24_TeamNamePrecedence ==
    \A n \in 1..Len(fmtOut) :
        fmtCall.name = "formatBracket" /\ fmtCall.bracket # <<>>
            => LET bracket == fmtCall.bracket
                   lines == SelectSeq(fmtOut[n].value[1], IsMatchLine)
               IN  \A k \in 1..Len(bracket) :
                      \E j \in 1..Len(lines) :
                          /\ DigitsFrom(lines[j], 2) = bracket[k].m
                          /\ FirstTeamOf(lines[j]) = NameByPrecedence(bracket[k], "t1", "t1_from")
                          /\ SecondTeamOf(lines[j]) = NameByPrecedence(bracket[k], "t2", "t2_from")

\* A bracket was formatted in which a side has a roster id outside the
\* league beside a forward reference, and sides refer to decided matches.
C24_Witness ==
    /\ fmtCall.name = "formatBracket"
    /\ fmtCall.bracket \in ForwardBrackets
    /\ Len(fmtOut) >= 1
    /\ LET lines == SelectSeq(fmtOut[1].value[1], IsMatchLine)
       IN  /\ \E j \in 1..Len(lines) :
                 /\ FirstTeamOf(lines[j]) = <<"Roster ", "9">>
                 /\ DigitsFrom(lines[j], 2) = 6
           /\ \E j \in 1..Len(lines) :
                 /\ FirstTeamOf(lines[j]) = <<"Loser of Match ", "1">>
                 /\ SecondTeamOf(lines[j]) = <<"TBD">>
           /\ \E j \in 1..Len(lines) :
                 /\ FirstTeamOf(lines[j]) = <<"Winner of Match ", "2">>
                 /\ SecondTeamOf(lines[j]) = <<"TBD">>

(***************************************************************************)
(* Projection columns (SpecFormat)                                         *)
(***************************************************************************)
\* The header cells of the column groups and the statistics under them.
PassingColumns ==
    << <<"P", "a", "s", "s", " ", "Y", "d", "s">>, <<"P", "a", "s", "s", " ", "T", "D", "s">> >>
RushingColumns ==
    << <<"R", "u", "s", "h", " ", "Y", "d", "s">>, <<"R", "u", "s", "h", " ", "T", "D", "s">> >>
ReceivingColumns ==
    << <<"R", "e", "c">>, <<"R", "e", "c", " ", "Y", "d", "s">>,
       <<"R", "e", "c", " ", "T", "D", "s">> >>
FixedColumns ==
    << <<"W", "e", "e", "k">>, <<"D", "a", "t", "e">>, <<"O", "p", "p">> >>
PointsColumn == << <<"P", "P", "R", " ", "P", "t", "s">> >>

CategoryFields ==
    [passing |-> <<"pass_yd", "pass_td">>, rushing |-> <<"rush_yd", "rush_td">>,
     receiving |-> <<"rec", "rec_yd", "rec_td">>]

\* C25: the header of a returned projections table has the passing, rushing
\* and receiving groups that the statistics of the lowest-numbered non-null
\* week carry (pass_yd, rush_yd, rec), whatever the later weeks carry; every
\* row has one cell per header cell, holding the week's value of the
\* statistic or zero when the week does not carry it.
C25_ColumnsFromFirstWeek ==
    \A n \in 1..Len(fmtOut) :
        /\ fmtCall.name = "formatProjectionsTable"
        /\ fmtCall.projections # <<>>
        /\ \E w \in DOMAIN fmtCall.projections[1] : fmtCall.projections[1][w] # <<>>
        => LET projections == fmtCall.projections[1]
               lowest == CHOOSE w \in DOMAIN projections :
                             /\ projections[w] # <<>>
                             /\ \A v \in DOMAIN projections : projections[v] # <<>> => w <= v
               Stats(w) == IF "stats" \in DOMAIN projections[w][1]
                           THEN projections[w][1].stats ELSE <<>>
               passing == "pass_yd" \in DOMAIN Stats(lowest)
               rushing == "rush_yd" \in DOMAIN Stats(lowest)
               receiving == "rec" \in DOMAIN Stats(lowest)
               fields == (IF passing THEN CategoryFields.passing ELSE <<>>)
                           \o (IF rushing THEN CategoryFields.rushing ELSE <<>>)
                           \o (IF receiving THEN CategoryFields.receiving ELSE <<>>)
                           \o <<"pts_ppr">>
               lines == Split(fmtOut[n].value[1].data)
               rows == RowsOf(fmtOut[n])
           IN  /\ Cells(lines[1])
                    = FixedColumns \o (IF passing THEN PassingColumns ELSE <<>>)
                        \o (IF rushing THEN RushingColumns ELSE <<>>)
                        \o (IF receiving THEN ReceivingColumns ELSE <<>>)
                        \o PointsColumn
               /\ Len(rows) = Cardinality({w \in DOMAIN projections : projections[w] # <<>>})
               /\ \A k \in 1..Len(rows) :
                      LET week == DigitsFrom(Cells(rows[k])[1], 1)
                      IN  /\ week \in DOMAIN projections /\ projections[week] # <<>>
                          /\ k > 1 => DigitsFrom(Cells(rows[k - 1])[1], 1) < week
                          /\ Len(Cells(rows[k])) = Len(Cells(lines[1]))
                          /\ \A c \in 1..Len(fields) :
                                 DigitsFrom(Cells(rows[k])[3 + c], 1)
                                     = IF fields[c] \in DOMAIN Stats(week)
                                       THEN Stats(week)[fields[c]] ELSE 0

\* A table was returned whose first week is a receiver's and whose later
\* week carries passing statistics: it has no passing columns, and the later
\* week reads zeros under the receiving columns.
C25_Witness ==
    /\ fmtCall.name = "formatProjectionsTable"
    /\ fmtCall.projections # <<>>
    /\ DOMAIN fmtCall.projections[1] = {2, 4, 5, 11}
    /\ Len(fmtOut) >= 1
    /\ LET lines == Split(fmtOut[1].value[1].data)
       IN  /\ Cells(lines[1]) = FixedColumns \o RushingColumns \o ReceivingColumns
                                   \o PointsColumn
           /\ Cells(lines[5]) [1] = <<"5">>
           /\ Cells(lines[5]) [6] = <<"0", ".", "0">>
           /\ Cells(lines[5]) [7] = <<"0">>

(***************************************************************************)
(* Failed directory fetch (SpecCache)                                      *)
(***************************************************************************)
\* Invocation i receives the response to its full-directory request.
PlayersAnswered(i) == pc[i] = "awaitPlayers" /\ pc'[i] # "awaitPlayers"

\* C26: when the full-directory fetch of an invocation fails, the invocation
\* ends by throwing the HTTP error with the status of the response, and the
\* loaded flag, the directory, the snapshot and the search index are left as
\* they were; an invocation that finds the flag unset and no snapshot
\* issues a full-directory fetch.
C26_FailedFetchLeavesCache ==
    [][\A i \in Inv :
          /\ PlayersAnswered(i) /\ (\E status \in Statuses \ (200..299) :
                                        <<"players", status>> \in recv'[i])
                => /\ pc'[i] = "done"
                   /\ \E status \in Statuses \ (200..299) :
                          result'[i] = Thrown([kind |-> "http",
                                               prefix |-> "HTTP error! status: ",
                                               status |-> status])
                   /\ cacheVars' = cacheVars
          /\ pc[i] = "awaitCacheData" /\ pc'[i] # "awaitCacheData" /\ playersCache = <<>>
                => /\ pc'[i] = "awaitPlayers"
                   /\ sent'[i]["players"] = sent[i]["players"] + 1]_vars

\* After a failed fetch the flag is unset, nothing is stored, and another
\* invocation has its own full-directory request in flight.
C26_Witness ==
    \E i, j \in Inv :
        /\ i # j
        /\ result[i].status = "failed"
        /\ result[i].error[1].kind = "http"
        /\ <<"players", 500>> \in recv[i]
        /\ ~playersLoaded /\ playersCache = <<>> /\ playerFuse = <<>> /\ players = EmptyDir
        /\ pc[j] = "awaitPlayers"

(***************************************************************************)
(* Order of the matches in the bracket arrays (SpecFormat)                 *)
(***************************************************************************)
Orderings(n) == {f \in [1..n -> 1..n] : \A a, b \in 1..n : f[a] = f[b] => a = b}
Permuted(list, f) == [k \in 1..Len(list) |-> list[f[k]]]

\* The standings of a call are the standings of every reordering of its
\* two bracket arrays.
OrderFree(c) ==
    LET rosterToUser == RosterToUser(c.users, c.rosters)
    IN  \A f \in Orderings(Len(c.winnersBracket)), g \in Orderings(Len(c.losersBracket)) :
            generateFinalStandings(Permuted(c.winnersBracket, f),
                                   Permuted(c.losersBracket, g), rosterToUser)
              = generateFinalStandings(c.winnersBracket, c.losersBracket, rosterToUser)

\* Two matches of the winners bracket share its highest round, or two
\* placing matches of the losers bracket carry the same p.
TiedBrackets(c) ==
    \/ \E a, b \in 1..Len(c.winnersBracket) :
          /\ a # b
          /\ c.winnersBracket[a].r = c.winnersBracket[b].r
          /\ \A k \in 1..Len(c.winnersBracket) :
                 c.winnersBracket[k].r <= c.winnersBracket[a].r
    \/ \E a, b \in 1..Len(c.losersBracket) :
          /\ a # b
          /\ PlaceOf(c.losersBracket[a]) # 0
          /\ PlaceOf(c.losersBracket[a]) = PlaceOf(c.losersBracket[b])

\* C27: generateFinalStandings returns the same standings for every order of
\* the matches inside the winners-bracket and the losers-bracket arrays, ties
\* of the highest round and of p included.
C27_StandingsIgnoreMatchOrder ==
    fmtCall.name = "generateFinalStandings" /\ fmtOut # <<>> => OrderFree(fmtCall)

\* Without such ties the order of the matches does not matter.
C27_OrderFreeWithoutTies ==
    fmtCall.name = "generateFinalStandings" /\ fmtOut # <<>> /\ ~TiedBrackets(fmtCall)
        => OrderFree(fmtCall)

\* Standings were produced from brackets of several matches without ties.
C27_UntiedStandings ==
    /\ fmtCall.name = "generateFinalStandings" /\ fmtOut # <<>>
    /\ ~TiedBrackets(fmtCall)
    /\ Len(fmtCall.winnersBracket) = 3 /\ Len(fmtCall.losersBracket) = 3
    /\ fmtOut[1].status = "returned" /\ fmtOut[1].value[1] # <<>>

(***************************************************************************)
(* Matchup records without a pairing (SpecFormat)                          *)
(***************************************************************************)
\* Every record carries its points, its starters and their points.
NumericPoints(matchups) ==
    \A k \in 1..Len(matchups) : "points" \in DOMAIN matchups[k] /\ ~StartersFail(matchups[k])

\* The matchup ids that exactly two records of the payload share.
PairedIds(matchups) ==
    {matchups[pair[1]].matchup_id : pair \in PairsOf(matchups)}

IsMatchupHeading(line) == line # <<>> /\ line[1] = "MATCHUP "

\* C28: formatMatchupsTable returns text for every payload whose records
\* carry numeric points, records without matchup_id and groups of one or of
\* more than two teams included.
C28_MatchupsTableNeverFails ==
    \A n \in 1..Len(fmtOut) :
        MatchupsFormatted /\ NumericPoints(fmtCall.matchups)
            => fmtOut[n].status = "returned"

\* When every record has a matchup_id the table is returned, with a heading
\* and two team lines for each id shared by exactly two records and nothing
\* for the records of other groups.
C28_UnpairedGroupsOmitted ==
    \A n \in 1..Len(fmtOut) :
        /\ MatchupsFormatted /\ NumericPoints(fmtCall.matchups) /\ fmtCall.matchups # <<>>
        /\ \A k \in 1..Len(fmtCall.matchups) : "matchup_id" \in DOMAIN fmtCall.matchups[k]
        => /\ fmtOut[n].status = "returned"
           /\ LET lines == Split(fmtOut[n].value[1].data)
                  paired == PairedIds(fmtCall.matchups)
              IN  /\ {lines[h] : h \in {e \in 1..Len(lines) : IsMatchupHeading(lines[e])}}
                        = {<<"MATCHUP ">> \o NumberToString(id) : id \in paired}
                  /\ Len(SelectSeq(lines, IsMatchupHeading)) = Cardinality(paired)
                  /\ Len(SelectSeq(lines, IsTeamLine)) = 2 * Cardinality(paired)

\* A table returned for a payload with a group of three teams, a group of
\* one and a pairing.
C28_GroupOfThreeOmitted ==
    /\ MatchupsFormatted
    /\ fmtCall.matchups = <<TeamA, TeamThird, TeamB, TeamE, TeamF, TeamD>>
    /\ Len(fmtOut) >= 1
    /\ fmtOut[1].status = "returned"

(***************************************************************************)
(* Directory load after the primary fetch (SpecOps)                        *)
(***************************************************************************)
EnrichingOps == {"getLeagueRosters", "getTrendingPlayers", "getMatchups", "getPlayerRanks"}

\* The endpoint an enriching operation fetches before anything of the directory.
PrimaryEndpoint(name) ==
    CASE name = "getLeagueRosters" -> "rosters"
      [] name = "getTrendingPlayers" -> "trending"
      [] name = "getMatchups" -> "matchups"
      [] name = "getPlayerRanks" -> "ranks"

PrimarySucceeded(i) ==
    \E status \in 200..299 : <<PrimaryEndpoint(call[i].name), status>> \in recv[i]
PrimaryFailed(i) ==
    \E status \in Statuses \ (200..299) :
        <<PrimaryEndpoint(call[i].name), status>> \in recv[i]

\* Invocation i is inside ensurePlayersLoaded or has requested the directory.
DirectoryTouched(i) ==
    \/ sent[i]["players"] > 0
    \/ pc[i] \in {"awaitCacheData", "awaitPlayers", "loadReturn"}

\* C29: in getLeagueRosters, getTrendingPlayers, getMatchups and
\* getPlayerRanks the directory load starts, and the cache changes, only with
\* the flag on and after the primary fetch of the invocation succeeded; once
\* the primary fetch failed the invocation has ended with no directory
\* request; with the flag off the directory is never touched.
C29_DirectoryAfterPrimaryFetch ==
    [][\A i \in OpsInv :
          call'[i].name \in EnrichingOps
              => /\ DirectoryTouched(i)' \/ cacheVars' # cacheVars
                    => call'[i].flag /\ PrimarySucceeded(i)'
                 /\ PrimaryFailed(i)'
                    => /\ pc'[i] = "done" /\ result'[i].status = "failed"
                       /\ sent'[i]["players"] = 0
                       /\ cacheVars' = cacheVars]_vars

\* getMatchups (formatted) has its directory request in flight after its
\* matchups arrived.
C29_Witness ==
    \E i \in OpsInv :
        /\ call[i].name = "getMatchups" /\ call[i].flag
        /\ <<"matchups", 200>> \in recv[i]
        /\ pc[i] = "awaitPlayers"
        /\ sent[i]["players"] = 1

\* The primary fetch of a formatted getPlayerRanks failed.
C29_PrimaryFailedReached ==
    \E i \in OpsInv :
        /\ call[i].name = "getPlayerRanks" /\ call[i].flag
        /\ <<"ranks", 500>> \in recv[i]
        /\ pc[i] = "done"

(***************************************************************************)
(* Loaded flag, snapshot and index (SpecCache)                             *)
(***************************************************************************)
\* Invocation i runs the step after `await this.ensurePlayersLoaded()` of
\* getPlayerIdByName or searchPlayers.
SearchRuns(i) ==
    AtStage(i, "search") /\ <<pc'[i], stage'[i]>> # <<pc[i], stage[i]>>

\* C30: whenever playersLoaded is set, a snapshot exists and the search
\* index has been built; so a search that follows ensurePlayersLoaded finds
\* the flag set and the index present, and rebuilds nothing.
C30_LoadedImpliesSnapshotAndIndex ==
    [][/\ playersLoaded' => playersCache' # <<>> /\ playerFuse' # <<>>
       /\ \A i \in Inv :
              SearchRuns(i)
                  => /\ playersLoaded /\ playersCache # <<>> /\ playerFuse # <<>>
                     /\ playerFuse' = playerFuse
                     /\ playerSearchItems' = playerSearchItems]_vars

\* A search has run on a loaded directory.
C30_Witness ==
    /\ playersLoaded /\ playersCache # <<>> /\ playerFuse # <<>>
    /\ \E i \in Inv : pc[i] = "done" /\ lookup[i] # <<>> /\ result[i].status = "returned"

====
